---- MODULE Spec2Model ----
(***************************************************************************)
(* Model of the carousel controller of src/assets/js/carousel.js.          *)
(*                                                                         *)
(* The controller is an object (`this`) with a closure (the mouse-drag     *)
(* variables of setupMouseDrag), the host's timer facility (setInterval /  *)
(* setTimeout), and the DOM attributes it writes.  Every handler of the    *)
(* script is one action; a handler is a sequential composition of method   *)
(* calls, so methods are operators from a world record S to a world record.*)
(***************************************************************************)
EXTENDS Integers, Sequences, FiniteSets, TLC

\* ------------------------------------------------------------------ bounds
MaxSlides == 3
MaxCalls == 4
MaxLen == 6

\* horizontal coordinates the pointer / finger can report
Coords == {40, 100}
GestureCoords == {40, 70, 100, 150}

\* ------------------------------------------------- configuration constants
autoRotateDelay == 5000
transitionDuration == 350
swipeThreshold == 50
dragThreshold == 50

\* the largest unit of time that divides both delays
RECURSIVE Gcd(_, _)
Gcd(a, b) == IF b = 0 THEN a ELSE Gcd(b, a % b)

Quantum == Gcd(autoRotateDelay, transitionDuration)

Keys == {"ArrowLeft", "ArrowRight", "Home", "End", "Enter"}

VARIABLES
  track,         \* TRUE iff the container has a .carousel-track
  nSlides,       \* this.slides.length, fixed at construction
  nIndicators,   \* this.indicators.length, fixed at construction
  prevButton,    \* TRUE iff container has [data-carousel-prev]
  nextButton,    \* TRUE iff container has [data-carousel-next]
  observe,       \* TRUE iff the history variable `last` is recorded
  device,        \* pointer devices of the user: "touch", "mouse" or "both"
  coords,        \* coordinates the user's gestures report
  this,          \* the controller's fields
  drag,          \* closure variables of setupMouseDrag
  host,          \* live interval timers and pending timeouts of the host
  dom,           \* attributes written by the controller
  listening,     \* TRUE while the bindings that destroy() removes are installed
  bound,         \* TRUE once the click and mouse-drag bindings are installed
  time,          \* units left until the next tick and until the lock release
  env,           \* which interactions the user has in progress
  last,          \* what the most recent handler was and what it called
  hist,          \* the run of navigate calls made so far
  arg,           \* the input a function of the form scripts is applied to
  ret,           \* the function applied last and what it returned
  main,          \* the controller of main.js built on the same container
  page           \* the state of the other script of the page that is examined

cfgVars == <<track, nSlides, nIndicators, prevButton, nextButton,
             observe, device, coords>>
progVars == <<this, drag, host, dom, listening, bound>>
vars == <<track, nSlides, nIndicators, prevButton, nextButton,
          observe, device, coords,
          this, drag, host, dom, listening, bound, time, env, last, hist,
          arg, ret, main, page>>

\* ----------------------------------------------------------------- helpers
Abs(x) == IF x < 0 THEN -x ELSE x

\* JavaScript's % : the remainder has the sign of the dividend
JsRem(a, b) == IF a >= 0 THEN a % b ELSE -((-a) % b)

\* Boolean.prototype.toString
ToStr(b) == IF b THEN "true" ELSE "false"

NoOut == [call |-> "none", arg |-> 0, locked |-> FALSE,
          err |-> FALSE, prevented |-> FALSE, thrown |-> FALSE]

NoLast == [ev |-> "init", call |-> "none", arg |-> 0, locked |-> FALSE,
           err |-> FALSE, prevented |-> FALSE, thrown |-> FALSE, live |-> 0]

\* no function of the form scripts has been applied
NoRet == [fn |-> "none"]

\* no controller of main.js is modelled
NoMain == <<>>

\* no other script of the page is examined
NoPage == <<>>

HistOther == [kind |-> "other", len |-> 0]

\* the world a handler runs in
World == [this |-> this, drag |-> drag, host |-> host, dom |-> dom,
          listening |-> listening, bound |-> bound, out |-> NoOut,
          hist |-> hist]

\* ---------------------------------------------------------- host's timers
\* host.intervals maps the handle of every live interval timer to its period;
\* host.timeouts lists the delays of the one-shot callbacks still pending.
\* setInterval returns a positive handle that names no live timer
NewId(S) == CHOOSE i \in 1..(Cardinality(DOMAIN S.host.intervals) + 1) :
               i \notin DOMAIN S.host.intervals

setInterval(S, delay) ==
  [S EXCEPT !.host.intervals =
     [i \in (DOMAIN @) \cup {NewId(S)} |-> IF i = NewId(S) THEN delay ELSE @[i]]]

clearInterval(S, id) ==
  [S EXCEPT !.host.intervals = [i \in (DOMAIN @) \ {id} |-> @[i]]]

setTimeout(S, delay) == [S EXCEPT !.host.timeouts = Append(@, delay)]

\* ------------------------------------------------------ controller methods
\* updateIndicators that writes aria-selected and leaves tabindex alone
updateIndicatorsKeepsTabindex(S) ==
  IF nIndicators = 0 THEN S
  ELSE [S EXCEPT
          !.dom.ariaSelected = [i \in 0..(nIndicators - 1) |->
                                  ToStr(i = S.this.currentIndex)]]

updateIndicators(S) ==
  IF nIndicators = 0 THEN S
  ELSE [S EXCEPT
          !.dom.ariaSelected = [i \in 0..(nIndicators - 1) |->
                                  ToStr(i = S.this.currentIndex)],
          !.dom.indTabindex = [i \in 0..(nIndicators - 1) |->
                                  IF i = S.this.currentIndex THEN "0" ELSE "-1"]]

\* `Slide ${k} of ${this.slides.length}` for the already formatted k
slideText(k) == "Slide " \o k \o " of " \o ToString(nSlides)

\* dom.slideTabindex[i] is the tabindex of every descendant of slide i that
\* the selector 'a, button, input, [tabindex]' matches; dom.prevLabel and
\* dom.nextLabel are the aria-label strings of the two controls
updateAccessibility(S) ==
  LET S1 == [S EXCEPT
               !.dom.ariaHidden = [i \in 0..(nSlides - 1) |->
                                     ToStr(~(i = S.this.currentIndex))],
               !.dom.slideTabindex = [i \in 0..(nSlides - 1) |->
                                     IF i = S.this.currentIndex THEN "0" ELSE "-1"]]
  IN IF prevButton /\ nextButton
       THEN [S1 EXCEPT
               !.dom.prevLabel = "Previous template - "
                                   \o slideText(ToString(S.this.currentIndex + 1)),
               !.dom.nextLabel = "Next template - "
                                   \o slideText(ToString(S.this.currentIndex + 1))]
       ELSE S1

\* goToSlide with the lower bound of the range check forgotten
goToSlideNoLowerBound(S, index) ==
  IF S.this.isTransitioning \/ index = S.this.currentIndex THEN S
  ELSE IF index >= nSlides THEN [S EXCEPT !.out.err = TRUE]
  ELSE setTimeout(updateAccessibility(updateIndicators(
         [S EXCEPT !.this.isTransitioning = TRUE,
                   !.this.currentIndex = index,
                   !.dom.transform = (-index) * 100])), transitionDuration)

\* goToSlide with the upper bound of the range check off by one
goToSlideOffByOne(S, index) ==
  IF S.this.isTransitioning \/ index = S.this.currentIndex THEN S
  ELSE IF index < 0 \/ index > nSlides THEN [S EXCEPT !.out.err = TRUE]
  ELSE setTimeout(updateAccessibility(updateIndicators(
         [S EXCEPT !.this.isTransitioning = TRUE,
                   !.this.currentIndex = index,
                   !.dom.transform = (-index) * 100])), transitionDuration)

\* goToSlide that does not look at the transition lock
goToSlideNoLock(S, index) ==
  IF index = S.this.currentIndex THEN S
  ELSE IF index < 0 \/ index >= nSlides THEN [S EXCEPT !.out.err = TRUE]
  ELSE setTimeout(updateAccessibility(updateIndicators(
         [S EXCEPT !.this.isTransitioning = TRUE,
                   !.this.currentIndex = index,
                   !.dom.transform = (-index) * 100])), transitionDuration)

\* goToSlide that shifts the track the wrong way
goToSlidePositiveOffset(S, index) ==
  IF S.this.isTransitioning \/ index = S.this.currentIndex THEN S
  ELSE IF index < 0 \/ index >= nSlides THEN [S EXCEPT !.out.err = TRUE]
  ELSE setTimeout(updateAccessibility(updateIndicators(
         [S EXCEPT !.this.isTransitioning = TRUE,
                   !.this.currentIndex = index,
                   !.dom.transform = index * 100])), transitionDuration)

\* goToSlide without the test for the current index
goToSlideNoSameCheck(S, index) ==
  IF S.this.isTransitioning THEN S
  ELSE IF index < 0 \/ index >= nSlides THEN [S EXCEPT !.out.err = TRUE]
  ELSE setTimeout(updateAccessibility(updateIndicators(
         [S EXCEPT !.this.isTransitioning = TRUE,
                   !.this.currentIndex = index,
                   !.dom.transform = (-index) * 100])), transitionDuration)

\* goToSlide that never schedules the release of the lock
goToSlideNoRelease(S, index) ==
  IF S.this.isTransitioning \/ index = S.this.currentIndex THEN S
  ELSE IF index < 0 \/ index >= nSlides THEN [S EXCEPT !.out.err = TRUE]
  ELSE updateAccessibility(updateIndicators(
         [S EXCEPT !.this.isTransitioning = TRUE,
                   !.this.currentIndex = index,
                   !.dom.transform = (-index) * 100]))

goToSlide(S, index) ==
  IF S.this.isTransitioning \/ index = S.this.currentIndex THEN S
  ELSE IF index < 0 \/ index >= nSlides THEN [S EXCEPT !.out.err = TRUE]
  ELSE setTimeout(updateAccessibility(updateIndicators(
         [S EXCEPT !.this.isTransitioning = TRUE,
                   !.this.currentIndex = index,
                   !.dom.transform = (-index) * 100])), transitionDuration)

\* bookkeeping of the run of navigate calls (history only)
HistNav(S, direction) ==
  IF ~S.this.isTransitioning /\ S.hist.kind \in {"none", direction}
     /\ S.hist.len < MaxCalls
    THEN [kind |-> direction, len |-> S.hist.len + 1]
    ELSE HistOther

\* navigate('next') without the wrap at the last slide
navigateNoWrap(S, direction) ==
  LET S1 == [S EXCEPT !.out.call = direction,
                      !.out.locked = S.this.isTransitioning,
                      !.hist = HistNav(S, direction)]
      newIndex == IF direction = "next"
                    THEN S.this.currentIndex + 1
                    ELSE JsRem(S.this.currentIndex - 1 + nSlides, nSlides)
  IN IF S.this.isTransitioning THEN S1 ELSE goToSlide(S1, newIndex)

\* navigate('prev') without adding the length before the remainder
navigateNoAdd(S, direction) ==
  LET S1 == [S EXCEPT !.out.call = direction,
                      !.out.locked = S.this.isTransitioning,
                      !.hist = HistNav(S, direction)]
      newIndex == IF direction = "next"
                    THEN JsRem(S.this.currentIndex + 1, nSlides)
                    ELSE JsRem(S.this.currentIndex - 1, nSlides)
  IN IF S.this.isTransitioning THEN S1 ELSE goToSlide(S1, newIndex)

navigate(S, direction) ==
  LET S1 == [S EXCEPT !.out.call = direction,
                      !.out.locked = S.this.isTransitioning,
                      !.hist = HistNav(S, direction)]
      newIndex == IF direction = "next"
                    THEN JsRem(S.this.currentIndex + 1, nSlides)
                    ELSE JsRem(S.this.currentIndex - 1 + nSlides, nSlides)
  IN IF S.this.isTransitioning THEN S1 ELSE goToSlide(S1, newIndex)

pauseAutoRotate(S) ==
  IF S.this.autoRotateInterval # 0
    THEN [clearInterval(S, S.this.autoRotateInterval)
            EXCEPT !.this.autoRotateInterval = 0]
    ELSE S

\* startAutoRotate that does not cancel the timer it replaces
startAutoRotateNoCancel(S) ==
  [setInterval(S, autoRotateDelay) EXCEPT !.this.autoRotateInterval = NewId(S)]

\* startAutoRotate with a period shorter than the transition
startAutoRotateFast(S) ==
  LET S1 == pauseAutoRotate(S)
  IN [setInterval(S1, transitionDuration - Quantum)
        EXCEPT !.this.autoRotateInterval = NewId(S1)]

startAutoRotate(S) ==
  LET S1 == pauseAutoRotate(S)
  IN [setInterval(S1, autoRotateDelay)
        EXCEPT !.this.autoRotateInterval = NewId(S1)]

destroy(S) == [pauseAutoRotate(S) EXCEPT !.listening = FALSE]

\* a handler that calls goToSlide itself (indicator, Home, End, direct call)
callGoToSlide(S, index) ==
  goToSlide([S EXCEPT !.out.call = "goto", !.out.arg = index,
                      !.out.locked = S.this.isTransitioning,
                      !.hist = HistOther], index)

\* handleKeyboard whose End case forgets the - 1
handleKeyboardEndOffByOne(S, key) ==
  CASE key = "ArrowLeft"  -> navigate([S EXCEPT !.out.prevented = TRUE], "prev")
    [] key = "ArrowRight" -> navigate([S EXCEPT !.out.prevented = TRUE], "next")
    [] key = "Home" -> callGoToSlide([S EXCEPT !.out.prevented = TRUE], 0)
    [] key = "End"  -> callGoToSlide([S EXCEPT !.out.prevented = TRUE], nSlides)
    [] OTHER -> S

handleKeyboard(S, key) ==
  CASE key = "ArrowLeft"  -> navigate([S EXCEPT !.out.prevented = TRUE], "prev")
    [] key = "ArrowRight" -> navigate([S EXCEPT !.out.prevented = TRUE], "next")
    [] key = "Home" -> callGoToSlide([S EXCEPT !.out.prevented = TRUE], 0)
    [] key = "End"  -> callGoToSlide([S EXCEPT !.out.prevented = TRUE], nSlides - 1)
    [] OTHER -> S

handleTouchStart(S, x) == pauseAutoRotate([S EXCEPT !.this.touchStartX = x])

handleTouchMove(S, x) == [S EXCEPT !.this.touchEndX = x]

\* handleTouchEnd with the threshold compared by >=
handleTouchEndInclusive(S) ==
  LET diff == S.this.touchStartX - S.this.touchEndX
      S1 == IF Abs(diff) >= swipeThreshold
              THEN IF diff > 0 THEN navigate(S, "next") ELSE navigate(S, "prev")
              ELSE S
  IN startAutoRotate(S1)

handleTouchEnd(S) ==
  LET diff == S.this.touchStartX - S.this.touchEndX
      S1 == IF Abs(diff) > swipeThreshold
              THEN IF diff > 0 THEN navigate(S, "next") ELSE navigate(S, "prev")
              ELSE S
  IN startAutoRotate(S1)

handleMouseDown(S, x) ==
  pauseAutoRotate([S EXCEPT !.drag.isDragging = TRUE, !.drag.startX = x])

handleMouseMove(S, x) ==
  IF ~S.drag.isDragging THEN S ELSE [S EXCEPT !.drag.currentX = x]

\* handleMouseUp that does not restart the rotation
handleMouseUpNoResume(S) ==
  IF ~S.drag.isDragging THEN S
  ELSE LET S0 == [S EXCEPT !.drag.isDragging = FALSE]
           diff == S.drag.startX - S.drag.currentX
       IN IF Abs(diff) > dragThreshold
            THEN IF diff > 0 THEN navigate(S0, "next") ELSE navigate(S0, "prev")
            ELSE S0

\* handleMouseUp without the test that a drag is in progress
handleMouseUpUnguarded(S) ==
  LET S0 == [S EXCEPT !.drag.isDragging = FALSE]
      diff == S.drag.startX - S.drag.currentX
      S1 == IF Abs(diff) > dragThreshold
              THEN IF diff > 0 THEN navigate(S0, "next")
                               ELSE navigate(S0, "prev")
              ELSE S0
  IN startAutoRotate(S1)

handleMouseUp(S) ==
  IF ~S.drag.isDragging THEN S
  ELSE LET S0 == [S EXCEPT !.drag.isDragging = FALSE]
           diff == S.drag.startX - S.drag.currentX
           S1 == IF Abs(diff) > dragThreshold
                   THEN IF diff > 0 THEN navigate(S0, "next")
                                    ELSE navigate(S0, "prev")
                   ELSE S0
       IN startAutoRotate(S1)

\* init() that leaves the slides' attributes as the markup has them
initNoAccessibility(S) ==
  startAutoRotate([S EXCEPT !.listening = TRUE, !.bound = TRUE])

\* init() whose setupEventListeners binds the two controls without testing
\* that they exist: the TypeError ends init() in its catch clause
initUnguarded(S) ==
  IF prevButton /\ nextButton
    THEN updateAccessibility(startAutoRotate([S EXCEPT !.listening = TRUE,
                                                       !.bound = TRUE]))
    ELSE [S EXCEPT !.out.err = TRUE]

\* init(): setupEventListeners, startAutoRotate, updateAccessibility
init(S) ==
  updateAccessibility(startAutoRotate([S EXCEPT !.listening = TRUE,
                                                !.bound = TRUE]))

\* constructor, lines 71-75: init() unless the container's
\* data-disable-carousel attribute is 'true'
constructIgnoresFlag(S, isDisabled) == init(S)

construct(S, isDisabled) == IF ~isDisabled THEN init(S) ELSE S

\* ------------------------------------------------------------ construction
\* the attributes the page's markup gives n slides and m indicators: with
\* attrs = "set" it marks the first slide and indicator as the current one,
\* with attrs = "unset" it has none of the attributes ("null"); it gives the
\* controls no aria-label
MarkupDom(n, m, attrs) ==
  [transform |-> 0,
   ariaHidden |-> [i \in 0..(n - 1) |->
                     IF attrs = "set" THEN ToStr(i # 0) ELSE "null"],
   slideTabindex |-> [i \in 0..(n - 1) |->
                     IF attrs = "set" THEN (IF i = 0 THEN "0" ELSE "-1")
                                      ELSE "null"],
   ariaSelected |-> [i \in 0..(m - 1) |->
                     IF attrs = "set" THEN ToStr(i = 0) ELSE "null"],
   indTabindex |-> [i \in 0..(m - 1) |->
                     IF attrs = "set" THEN (IF i = 0 THEN "0" ELSE "-1")
                                      ELSE "null"],
   prevLabel |-> "null",
   nextLabel |-> "null"]

\* the fields the constructor sets before it calls init()
Markup(n, m, attrs) ==
  [this |-> [currentIndex |-> 0, isTransitioning |-> FALSE,
             autoRotateInterval |-> 0, touchStartX |-> 0, touchEndX |-> 0],
   drag |-> [isDragging |-> FALSE, startX |-> 0, currentX |-> 0],
   host |-> [intervals |-> <<>>, timeouts |-> <<>>],
   dom |-> MarkupDom(n, m, attrs),
   listening |-> FALSE, bound |-> FALSE, out |-> NoOut,
   hist |-> [kind |-> "none", len |-> 0]]

\* ------------------------------------- the CarouselController of main.js
\* the fields its constructor sets before init(); threw is TRUE when the
\* latest call ended in a TypeError, failed when the constructor did
MainMarkup(n, m, attrs) ==
  [this |-> [currentIndex |-> 0, isTransitioning |-> FALSE,
             autoRotateInterval |-> 0, touchStartX |-> 0, touchEndX |-> 0],
   host |-> [intervals |-> <<>>, timeouts |-> <<>>],
   dom |-> MarkupDom(n, m, attrs),
   threw |-> FALSE, failed |-> FALSE]

mainPauseAutoRotate(M) ==
  IF M.this.autoRotateInterval # 0
    THEN [clearInterval(M, M.this.autoRotateInterval)
            EXCEPT !.this.autoRotateInterval = 0]
    ELSE M

mainStartAutoRotate(M) ==
  LET M1 == mainPauseAutoRotate(M)
  IN [setInterval(M1, 5000) EXCEPT !.this.autoRotateInterval = NewId(M1)]

\* setAttribute converts the boolean to 'true' or 'false'
mainUpdateIndicators(M) ==
  [M EXCEPT
     !.dom.ariaSelected = [i \in 0..(nIndicators - 1) |->
                             ToStr(i = M.this.currentIndex)],
     !.dom.indTabindex = [i \in 0..(nIndicators - 1) |->
                             IF i = M.this.currentIndex THEN "0" ELSE "-1"]]

\* the labels are written without a test that the controls exist
mainUpdateAccessibility(M) ==
  LET M1 == [M EXCEPT
               !.dom.ariaHidden = [i \in 0..(nSlides - 1) |->
                                     ToStr(~(i = M.this.currentIndex))],
               !.dom.slideTabindex = [i \in 0..(nSlides - 1) |->
                                     IF i = M.this.currentIndex THEN "0" ELSE "-1"]]
      M2 == [M1 EXCEPT
               !.dom.prevLabel = "Previous template - "
                                   \o slideText(ToString(M.this.currentIndex + 1))]
      M3 == [M2 EXCEPT
               !.dom.nextLabel = "Next template - "
                                   \o slideText(ToString(M.this.currentIndex + 1))]
  IN IF ~prevButton THEN [M1 EXCEPT !.threw = TRUE]
     ELSE IF ~nextButton THEN [M2 EXCEPT !.threw = TRUE]
     ELSE M3

\* no test of the range of index
mainGoToSlide(M, index) ==
  IF M.this.isTransitioning \/ index = M.this.currentIndex THEN M
  ELSE LET M1 == mainUpdateAccessibility(mainUpdateIndicators(
                   [M EXCEPT !.this.isTransitioning = TRUE,
                             !.this.currentIndex = index,
                             !.dom.transform = (-index) * 100]))
       IN IF M1.threw THEN M1 ELSE setTimeout(M1, 350)

mainNavigate(M, direction) ==
  LET newIndex == IF direction = "next"
                    THEN JsRem(M.this.currentIndex + 1, nSlides)
                    ELSE JsRem(M.this.currentIndex - 1 + nSlides, nSlides)
  IN IF M.this.isTransitioning THEN M ELSE mainGoToSlide(M, newIndex)

\* setupEventListeners calls addEventListener on both controls untested
mainInit(M) ==
  IF ~prevButton \/ ~nextButton THEN [M EXCEPT !.threw = TRUE]
  ELSE mainUpdateAccessibility(mainStartAutoRotate(M))

\* new CarouselController(container): no try around init()
mainConstruct(M, isDisabled) ==
  LET M1 == IF ~isDisabled THEN mainInit(M) ELSE M
  IN [M1 EXCEPT !.failed = M1.threw]

\* a call on the instance, if the constructor returned one
OnMain(M) == IF main.failed THEN main ELSE M

\* the user's side: interactions in progress, and for the current (or latest)
\* touch and drag the coordinate it started at and the last one it moved to
NoEnv == [touchActive |-> FALSE, touchMoved |-> FALSE, tStart |-> 0, tLast |-> 0,
          dragMoved |-> FALSE, mStart |-> 0, mLast |-> 0,
          hovering |-> FALSE, focused |-> FALSE]

\* the state a handler leaves, with t on the clocks
CommitAt(S, ev, t) ==
  /\ time' = t
  /\ this' = S.this
  /\ drag' = S.drag
  /\ host' = S.host
  /\ dom' = S.dom
  /\ listening' = S.listening
  /\ bound' = S.bound
  /\ last' = IF observe
               THEN [ev |-> ev, call |-> S.out.call, arg |-> S.out.arg,
                     locked |-> S.out.locked, err |-> S.out.err,
                     prevented |-> S.out.prevented,
                     thrown |-> S.out.thrown,
                     live |-> Cardinality(DOMAIN host.intervals)]
               ELSE last
  /\ hist' = IF ev = "lockRelease" THEN hist
             ELSE IF S.out.call \in {"next", "prev"} THEN S.hist
             ELSE HistOther
  /\ UNCHANGED <<cfgVars, arg, ret, page>>

\* a handler that runs without the model looking at the clocks
Commit(S, ev) == CommitAt(S, ev, time) /\ UNCHANGED main

\* the clocks after construction: a full period until the first tick of the
\* timer that init() started, no release pending
NewTime == [tick |-> IF DOMAIN host.intervals = {} THEN 0
                     ELSE host.intervals[this.autoRotateInterval],
            release |-> 0]

\* construction on a container with a track, one of ns slides, one of ms
\* indicators, the controls of one of ctls, the markup of one of attrss and
\* the disable attribute 'true' iff isDisabled
InitFlag(ns, ms, ctls, attrss, isDisabled, obs, devs, cs) ==
  /\ track = TRUE
  /\ nSlides \in ns
  /\ nIndicators \in ms
  /\ \E c \in ctls : prevButton = c[1] /\ nextButton = c[2]
  /\ observe = obs
  /\ device \in devs
  /\ coords = cs
  /\ \E attrs \in attrss :
       LET S == construct(Markup(nSlides, nIndicators, attrs), isDisabled)
       IN /\ this = S.this
          /\ drag = S.drag
          /\ host = S.host
          /\ dom = S.dom
          /\ listening = S.listening
          /\ bound = S.bound
          /\ main = mainConstruct(MainMarkup(nSlides, nIndicators, attrs),
                                  isDisabled)
  /\ time = NewTime
  /\ env = NoEnv
  /\ last = NoLast
  /\ arg = <<>>
  /\ ret = NoRet
  /\ page = NoPage
  /\ hist = [kind |-> "none", len |-> 0]

\* the same without the disable attribute
InitCfg(ns, ms, ctls, attrss, obs, devs, cs) ==
  InitFlag(ns, ms, ctls, attrss, FALSE, obs, devs, cs)

\* a container with both controls and one indicator per slide
InitWith(ns, obs, devs, cs) ==
  /\ InitCfg(ns, 0..MaxSlides, {<<TRUE, TRUE>>}, {"set"}, obs, devs, cs)
  /\ nIndicators = nSlides

\* ----------------------------------------------------------------- actions
\* direct calls of the public methods
NavigateCall(direction) ==
  /\ Commit(navigate(World, direction), "navigate")
  /\ UNCHANGED env

GoToSlideCall(i) ==
  /\ Commit(callGoToSlide(World, i), "goToSlide")
  /\ UNCHANGED env

\* clicks on the controls
PrevClick ==
  /\ prevButton
  /\ Commit(IF bound THEN navigate(World, "prev") ELSE World, "prevClick")
  /\ UNCHANGED env

NextClick ==
  /\ nextButton
  /\ Commit(IF bound THEN navigate(World, "next") ELSE World, "nextClick")
  /\ UNCHANGED env

IndicatorClick(i) ==
  /\ i \in 0..(nIndicators - 1)
  /\ Commit(IF bound THEN callGoToSlide(World, i) ELSE World,
            "indicatorClick")
  /\ UNCHANGED env

KeyDown(key) ==
  /\ Commit(IF listening THEN handleKeyboard(World, key) ELSE World, key)
  /\ UNCHANGED env

TouchStart(x) ==
  /\ device # "mouse"
  /\ ~env.touchActive
  /\ Commit(IF listening THEN handleTouchStart(World, x) ELSE World,
            "touchstart")
  /\ env' = [env EXCEPT !.touchActive = TRUE, !.touchMoved = FALSE,
                        !.tStart = x, !.tLast = x]

TouchMove(x) ==
  /\ env.touchActive
  /\ Commit(IF listening THEN handleTouchMove(World, x) ELSE World,
            "touchmove")
  /\ env' = [env EXCEPT !.touchMoved = TRUE, !.tLast = x]

TouchEnd ==
  /\ env.touchActive
  /\ Commit(IF listening THEN handleTouchEnd(World) ELSE World, "touchend")
  /\ env' = [env EXCEPT !.touchActive = FALSE]

MouseDown(x) ==
  /\ device # "touch"
  /\ ~drag.isDragging
  /\ Commit(IF bound THEN handleMouseDown(World, x) ELSE World, "mousedown")
  /\ env' = [env EXCEPT !.dragMoved = FALSE, !.mStart = x, !.mLast = x]

MouseMove(x) ==
  /\ device # "touch"
  /\ Commit(IF bound THEN handleMouseMove(World, x) ELSE World, "mousemove")
  /\ env' = IF drag.isDragging
               THEN [env EXCEPT !.dragMoved = TRUE, !.mLast = x]
               ELSE env

MouseUp ==
  /\ device # "touch"
  /\ Commit(IF bound THEN handleMouseUp(World) ELSE World,
            IF drag.isDragging THEN "dragend" ELSE "mouseup")
  /\ UNCHANGED env

MouseEnter ==
  /\ ~env.hovering
  /\ Commit(IF listening THEN pauseAutoRotate(World) ELSE World, "mouseenter")
  /\ env' = [env EXCEPT !.hovering = TRUE]

MouseLeave ==
  /\ env.hovering
  /\ Commit(IF listening THEN startAutoRotate(World) ELSE World, "mouseleave")
  /\ env' = [env EXCEPT !.hovering = FALSE]

FocusIn ==
  /\ ~env.focused
  /\ Commit(IF listening THEN pauseAutoRotate(World) ELSE World, "focusin")
  /\ env' = [env EXCEPT !.focused = TRUE]

FocusOut ==
  /\ env.focused
  /\ Commit(IF listening THEN startAutoRotate(World) ELSE World, "focusout")
  /\ env' = [env EXCEPT !.focused = FALSE]

\* timer callbacks
AutoRotateTick ==
  /\ \E id \in DOMAIN host.intervals :
       Commit(navigate(World, "next"), "tick")
  /\ UNCHANGED env

\* a release callback that also serves a request kept from the locked time
LockReleaseNavigates ==
  /\ host.timeouts # <<>>
  /\ Commit(navigate([World EXCEPT !.host.timeouts = Tail(@),
                                   !.this.isTransitioning = FALSE], "next"),
            "lockRelease")
  /\ UNCHANGED env

LockRelease ==
  /\ host.timeouts # <<>>
  /\ Commit([World EXCEPT !.host.timeouts = Tail(@),
                          !.this.isTransitioning = FALSE], "lockRelease")
  /\ UNCHANGED env

StartAutoRotateCall ==
  /\ Commit(startAutoRotate(World), "startAutoRotate")
  /\ UNCHANGED env

PauseAutoRotateCall ==
  /\ Commit(pauseAutoRotate(World), "pauseAutoRotate")
  /\ UNCHANGED env

DestroyCall ==
  /\ Commit(destroy(World), "destroy")
  /\ UNCHANGED env

IndexArgs == (-1)..(MaxSlides + 1)

NavActions ==
  \/ \E d \in {"next", "prev"} : NavigateCall(d)
  \/ \E i \in IndexArgs : GoToSlideCall(i)
  \/ PrevClick
  \/ NextClick
  \/ \E i \in 0..(MaxSlides - 1) : IndicatorClick(i)
  \/ \E k \in Keys : KeyDown(k)

GestureActions ==
  \/ \E x \in coords : TouchStart(x)
  \/ \E x \in coords : TouchMove(x)
  \/ TouchEnd
  \/ \E x \in coords : MouseDown(x)
  \/ \E x \in coords : MouseMove(x)
  \/ MouseUp

HoverFocusActions ==
  \/ MouseEnter
  \/ MouseLeave
  \/ FocusIn
  \/ FocusOut

TimerActions ==
  \/ AutoRotateTick
  \/ LockRelease

ApiActions ==
  \/ StartAutoRotateCall
  \/ PauseAutoRotateCall
  \/ DestroyCall

\* every handler of an initialised controller, any interleaving
Init == InitWith(1..MaxSlides, FALSE, {"both"}, Coords)

Next == NavActions \/ GestureActions \/ HoverFocusActions \/ TimerActions

Spec == Init /\ [][Next]_vars

\* navigation requests, gestures of one pointer device and timer callbacks,
\* with the history recorded
InitNav == InitWith(1..MaxSlides, TRUE, {"touch", "mouse"}, GestureCoords)

NextNav == NavActions \/ GestureActions \/ TimerActions

SpecNav == InitNav /\ [][NextNav]_vars

\* the calls and handlers that start or cancel the auto-rotate timer
InitApi == InitWith(1..MaxSlides, TRUE, {"touch", "mouse"}, Coords)

NextApi == ApiActions \/ HoverFocusActions \/ GestureActions \/ TimerActions

SpecApi == InitApi /\ [][NextApi]_vars

\* ----------------------------------- the constructor's early return (40-43)
\* Without a track, or without slides, the constructor returns before it
\* assigns the state fields, the config and the bound handlers, and before
\* init(): the fields of the instance are undefined.  The methods are
\* translated once more for such an instance, on tagged JavaScript values.
Undefined == [k |-> "undefined", n |-> 0]
Null == [k |-> "null", n |-> 0]
NaN == [k |-> "NaN", n |-> 0]
True == [k |-> "boolean", n |-> 1]
Num(i) == [k |-> "number", n |-> i]

\* ToBoolean
Truthy(v) == (v.k = "boolean" /\ v.n = 1) \/ (v.k = "number" /\ v.n # 0)

\* a === b
StrictEq(a, b) == a.k = b.k /\ a.k # "NaN" /\ a.n = b.n

\* a + i and a % len for a number i and a length len
Plus(a, i) == IF a.k = "number" THEN Num(a.n + i) ELSE NaN

Rem(a, len) == IF a.k = "number" /\ len # 0 THEN Num(JsRem(a.n, len)) ELSE NaN

\* a < i and a >= i: false when a is NaN
Less(a, i) == a.k = "number" /\ a.n < i

AtLeast(a, i) == a.k = "number" /\ a.n >= i

\* a number in a template literal
NumStr(a) == IF a.k = "number" THEN ToString(a.n) ELSE "NaN"

\* a TypeError leaves the method at once
Throw(S) == [S EXCEPT !.out.thrown = TRUE]

\* the instance the constructor leaves at its early return, error reported
Unconstructed(n, m, attrs) ==
  [this |-> [currentIndex |-> Undefined, isTransitioning |-> Undefined,
             autoRotateInterval |-> Undefined, touchStartX |-> Undefined,
             touchEndX |-> Undefined, config |-> Undefined],
   drag |-> [isDragging |-> FALSE, startX |-> 0, currentX |-> 0],
   host |-> [intervals |-> <<>>, timeouts |-> <<>>],
   dom |-> MarkupDom(n, m, attrs),
   listening |-> FALSE, bound |-> FALSE,
   out |-> [NoOut EXCEPT !.err = TRUE],
   hist |-> [kind |-> "none", len |-> 0]]

pauseAutoRotateJs(S) ==
  IF Truthy(S.this.autoRotateInterval)
    THEN [clearInterval(S, S.this.autoRotateInterval.n)
            EXCEPT !.this.autoRotateInterval = Null]
    ELSE S

\* this.config.autoRotateDelay is evaluated before setInterval is called
startAutoRotateJs(S) ==
  LET S1 == pauseAutoRotateJs(S)
  IN IF S1.this.config.k = "undefined" THEN Throw(S1)
     ELSE [setInterval(S1, autoRotateDelay)
             EXCEPT !.this.autoRotateInterval = Num(NewId(S1))]

updateIndicatorsJs(S) ==
  IF nIndicators = 0 THEN S
  ELSE [S EXCEPT
          !.dom.ariaSelected = [i \in 0..(nIndicators - 1) |->
                                  ToStr(StrictEq(Num(i), S.this.currentIndex))],
          !.dom.indTabindex = [i \in 0..(nIndicators - 1) |->
                                  IF StrictEq(Num(i), S.this.currentIndex)
                                    THEN "0" ELSE "-1"]]

updateAccessibilityJs(S) ==
  LET S1 == [S EXCEPT
               !.dom.ariaHidden = [i \in 0..(nSlides - 1) |->
                                     ToStr(~StrictEq(Num(i), S.this.currentIndex))],
               !.dom.slideTabindex = [i \in 0..(nSlides - 1) |->
                                     IF StrictEq(Num(i), S.this.currentIndex)
                                       THEN "0" ELSE "-1"]]
  IN IF prevButton /\ nextButton
       THEN [S1 EXCEPT
               !.dom.prevLabel = "Previous template - "
                                   \o slideText(NumStr(Plus(S.this.currentIndex, 1))),
               !.dom.nextLabel = "Next template - "
                                   \o slideText(NumStr(Plus(S.this.currentIndex, 1)))]
       ELSE S1

\* this.track.style throws when the track is null; a transform of
\* translateX(NaN%) is not a valid value and the style keeps the old one;
\* this.config.transitionDuration is evaluated before setTimeout is called
goToSlideJs(S, index) ==
  IF Truthy(S.this.isTransitioning) \/ StrictEq(index, S.this.currentIndex)
    THEN S
  ELSE IF Less(index, 0) \/ AtLeast(index, nSlides)
    THEN [S EXCEPT !.out.err = TRUE]
  ELSE LET S1 == [S EXCEPT !.this.isTransitioning = True,
                           !.this.currentIndex = index]
           S2 == IF index.k = "number"
                   THEN [S1 EXCEPT !.dom.transform = (-index.n) * 100]
                   ELSE S1
           S3 == updateAccessibilityJs(updateIndicatorsJs(S2))
       IN IF ~track THEN Throw(S1)
          ELSE IF S3.this.config.k = "undefined" THEN Throw(S3)
          ELSE setTimeout(S3, transitionDuration)

navigateJs(S, direction) ==
  LET S1 == [S EXCEPT !.out.call = direction,
                      !.out.locked = Truthy(S.this.isTransitioning)]
      newIndex == IF direction = "next"
                    THEN Rem(Plus(S.this.currentIndex, 1), nSlides)
                    ELSE Rem(Plus(Plus(S.this.currentIndex, -1), nSlides),
                             nSlides)
  IN IF Truthy(S.this.isTransitioning) THEN S1 ELSE goToSlideJs(S1, newIndex)

\* this.track.removeEventListener throws when the track is null
destroyJs(S) ==
  LET S1 == pauseAutoRotateJs(S)
  IN IF ~track THEN Throw(S1) ELSE S1

\* construction on a container that lacks the track, or has no slide
InitUnconstructed ==
  /\ track \in BOOLEAN
  /\ nSlides \in 0..MaxSlides
  /\ ~track \/ nSlides = 0
  /\ nIndicators \in 0..MaxSlides
  /\ prevButton \in BOOLEAN
  /\ nextButton \in BOOLEAN
  /\ observe = TRUE
  /\ device = "touch"
  /\ coords = Coords
  /\ \E attrs \in {"set", "unset"} :
       LET S == Unconstructed(nSlides, nIndicators, attrs)
       IN /\ this = S.this
          /\ drag = S.drag
          /\ host = S.host
          /\ dom = S.dom
          /\ listening = S.listening
          /\ bound = S.bound
  /\ time = NewTime
  /\ env = NoEnv
  /\ last = [NoLast EXCEPT !.err = TRUE]
  /\ arg = <<>>
  /\ ret = NoRet
  /\ main = NoMain
  /\ page = NoPage
  /\ hist = [kind |-> "none", len |-> 0]

\* calls of the public methods on that instance; no listener was installed
\* and no timer exists, so no other handler of it can run
UnconstructedNavigateCall(direction) ==
  /\ Commit(navigateJs(World, direction), "navigate")
  /\ UNCHANGED env

UnconstructedGoToSlideCall(i) ==
  /\ Commit(goToSlideJs([World EXCEPT
                           !.out.call = "goto", !.out.arg = i,
                           !.out.locked = Truthy(this.isTransitioning)],
                        Num(i)), "goToSlide")
  /\ UNCHANGED env

UnconstructedStartCall ==
  /\ Commit(startAutoRotateJs(World), "startAutoRotate")
  /\ UNCHANGED env

UnconstructedPauseCall ==
  /\ Commit(pauseAutoRotateJs(World), "pauseAutoRotate")
  /\ UNCHANGED env

UnconstructedDestroyCall ==
  /\ Commit(destroyJs(World), "destroy")
  /\ UNCHANGED env

NextUnconstructed ==
  \/ \E d \in {"next", "prev"} : UnconstructedNavigateCall(d)
  \/ \E i \in IndexArgs : UnconstructedGoToSlideCall(i)
  \/ UnconstructedStartCall
  \/ UnconstructedPauseCall
  \/ UnconstructedDestroyCall

SpecUnconstructed == InitUnconstructed /\ [][NextUnconstructed]_vars

\* navigation on every kind of container: any number of indicators, either
\* control present or absent, markup with or without the attributes
InitDom == InitCfg(1..MaxSlides, 0..MaxSlides,
                   {<<p, n>> : p \in BOOLEAN, n \in BOOLEAN},
                   {"set", "unset"}, FALSE, {"touch"}, Coords)

NextDom == NavActions \/ TimerActions

SpecDom == InitDom /\ [][NextDom]_vars

\* navigation and destroy() with the history recorded; the host runs every
\* callback that setTimeout scheduled, and destroy() cancels none of them
InitLock == InitWith(1..MaxSlides, TRUE, {"touch"}, Coords)

NextLock == NavActions \/ TimerActions \/ DestroyCall

SpecLock == InitLock /\ [][NextLock]_vars /\ WF_vars(LockRelease)

\* what a user can do to the page, the timer callbacks, and destroy()
InputActions ==
  \/ PrevClick
  \/ NextClick
  \/ \E i \in 0..(MaxSlides - 1) : IndicatorClick(i)
  \/ \E k \in Keys : KeyDown(k)

NextDestroy ==
  \/ InputActions
  \/ GestureActions
  \/ HoverFocusActions
  \/ TimerActions
  \/ DestroyCall

SpecDestroy == Init /\ [][NextDestroy]_vars

\* every user input on a container whose disable attribute is 'true'; no
\* timer was started and no callback scheduled, so none can run
InitDisabled == InitFlag(1..MaxSlides, 0..MaxSlides,
                         {<<TRUE, TRUE>>, <<FALSE, FALSE>>},
                         {"set", "unset"}, TRUE, TRUE, {"touch", "mouse"},
                         Coords)

NextDisabled == InputActions \/ GestureActions \/ HoverFocusActions

SpecDisabled == InitDisabled /\ [][NextDisabled]_vars

\* navigation requests, gestures and timer callbacks on containers that lack
\* the previous control, the next control or the indicators, history recorded
InitControls ==
  /\ InitCfg(1..MaxSlides, 0..MaxSlides,
             {<<p, n>> : p \in BOOLEAN, n \in BOOLEAN},
             {"set"}, TRUE, {"touch", "mouse"}, Coords)
  /\ nIndicators \in {0, nSlides}

SpecControls == InitControls /\ [][NextNav]_vars

\* no user interaction, and a host that runs every callback exactly when it
\* is due: time passes in steps of Quantum while no callback is due
TimePasses ==
  /\ DOMAIN host.intervals # {}
  /\ time.tick > 0
  /\ host.timeouts # <<>> => time.release > 0
  /\ time' = [tick |-> time.tick - Quantum,
              release |-> IF host.timeouts # <<>>
                            THEN time.release - Quantum ELSE time.release]
  /\ UNCHANGED <<cfgVars, progVars, env, last, hist, arg, ret, main, page>>

TimedTick ==
  /\ DOMAIN host.intervals # {}
  /\ time.tick = 0
  /\ LET S == navigate(World, "next")
     IN CommitAt(S, "tick",
                 [tick |-> host.intervals[this.autoRotateInterval],
                  release |-> IF Len(S.host.timeouts) > Len(host.timeouts)
                                THEN S.host.timeouts[Len(S.host.timeouts)]
                                ELSE time.release])
  /\ UNCHANGED <<env, main>>

TimedRelease ==
  /\ host.timeouts # <<>>
  /\ time.release = 0
  /\ CommitAt([World EXCEPT !.host.timeouts = Tail(@),
                            !.this.isTransitioning = FALSE], "lockRelease",
              time)
  /\ UNCHANGED <<env, main>>

NextTimed == TimePasses \/ TimedTick \/ TimedRelease

SpecTimed == InitNav /\ [][NextTimed]_vars /\ WF_vars(NextTimed)

\* ------------------------------------------- validation.js and the form
\* A string is a sequence of tokens: "a" is an ordinary character, "@", "."
\* and " " are themselves, and "A" is a run of LongRun ordinary characters,
\* which lets a short sequence be a string around the 254-character limit.
VALIDATION_MESSAGES ==
  [required |-> "Email address is required",
   invalid |-> "Please enter a valid email address",
   tooShort |-> "Email address is too short",
   tooLong |-> "Email address is too long (max 254 characters)"]

CONSTRAINTS ==
  [email |-> [minLength |-> 3, maxLength |-> 254],
   debounceDelay |-> 300,
   submitTimeout |-> 10000]

\* "A@a.a" has exactly maxLength characters
LongRun == CONSTRAINTS.email.maxLength - 4

Tokens == {"a", "@", ".", " ", "A"}

Strings == UNION {[1..n -> Tokens] : n \in 0..MaxLen}

\* String.prototype.length
length(s) ==
  Len(s) + (LongRun - 1) * Cardinality({i \in 1..Len(s) : s[i] = "A"})

\* String.prototype.trim
RECURSIVE trimStart(_)
trimStart(s) ==
  IF s # <<>> /\ Head(s) = " " THEN trimStart(Tail(s)) ELSE s

RECURSIVE trimEnd(_)
trimEnd(s) ==
  IF s # <<>> /\ s[Len(s)] = " " THEN trimEnd(SubSeq(s, 1, Len(s) - 1)) ELSE s

trim(s) == trimEnd(trimStart(s))

\* [^\s@]+ matches s[from..to]
Plain(s, from, to) ==
  /\ from <= to
  /\ \A k \in from..to : s[k] \notin {" ", "@"}

\* /^[^\s@]+@[^\s@]+\.[^\s@]+$/.test(s)
EMAIL_REGEX_test(s) ==
  \E i \in 1..Len(s) : \E j \in 1..Len(s) :
    /\ s[i] = "@"
    /\ s[j] = "."
    /\ Plain(s, 1, i - 1)
    /\ Plain(s, i + 1, j - 1)
    /\ Plain(s, j + 1, Len(s))

\* validateEmail with the maximum length excluded
validateEmailInclusiveMax(email) ==
  IF email = <<>> \/ trim(email) = <<>>
    THEN [isValid |-> FALSE, message |-> VALIDATION_MESSAGES.required]
  ELSE IF length(trim(email)) < CONSTRAINTS.email.minLength
    THEN [isValid |-> FALSE, message |-> VALIDATION_MESSAGES.tooShort]
  ELSE IF length(trim(email)) >= CONSTRAINTS.email.maxLength
    THEN [isValid |-> FALSE, message |-> VALIDATION_MESSAGES.tooLong]
  ELSE IF ~EMAIL_REGEX_test(trim(email))
    THEN [isValid |-> FALSE, message |-> VALIDATION_MESSAGES.invalid]
  ELSE [isValid |-> TRUE, message |-> ""]

\* validation.js validateEmail
validateEmail(email) ==
  IF email = <<>> \/ trim(email) = <<>>
    THEN [isValid |-> FALSE, message |-> VALIDATION_MESSAGES.required]
  ELSE IF length(trim(email)) < CONSTRAINTS.email.minLength
    THEN [isValid |-> FALSE, message |-> VALIDATION_MESSAGES.tooShort]
  ELSE IF length(trim(email)) > CONSTRAINTS.email.maxLength
    THEN [isValid |-> FALSE, message |-> VALIDATION_MESSAGES.tooLong]
  ELSE IF ~EMAIL_REGEX_test(trim(email))
    THEN [isValid |-> FALSE, message |-> VALIDATION_MESSAGES.invalid]
  ELSE [isValid |-> TRUE, message |-> ""]

\* main.js validateEmail(input, errorElement) on input.value: what it
\* returns, and what it writes to the input and to the error element
mainValidateEmail(inputValue) ==
  LET value == trim(inputValue)
  IN IF value = <<>>
       THEN [isValid |-> FALSE, ariaInvalid |-> "true",
             textContent |-> "Email address is required"]
     ELSE IF ~EMAIL_REGEX_test(value)
       THEN [isValid |-> FALSE, ariaInvalid |-> "true",
             textContent |-> "Please enter a valid email address"]
     ELSE [isValid |-> TRUE, ariaInvalid |-> "false", textContent |-> ""]

\* the values sanitizeInput is applied to: a string, or a value of another
\* type (a File among the entries of a FormData is an object)
JsString(s) == [k |-> "string", n |-> 0, s |-> s]

NonString(v) == [k |-> v.k, n |-> v.n, s |-> <<>>]

File == [k |-> "object", n |-> 0]

NonStrings == {NonString(v) : v \in {Undefined, Null, NaN, True, Num(0), File}}

SanitizeTokens == {"a", "<", ">", " ", "A"}

SanitizeStrings == UNION {[1..n -> SanitizeTokens] : n \in 0..MaxLen}

\* String.prototype.replace(/[<>]/g, '')
removeAngleBrackets(s) == SelectSeq(s, LAMBDA c : c \notin {"<", ">"})

\* String.prototype.substring(0, n); a run that is cut leaves its first
\* characters
RECURSIVE substring(_, _)
substring(s, n) ==
  IF s = <<>> \/ n <= 0 THEN <<>>
  ELSE IF Head(s) = "A"
    THEN IF n >= LongRun
           THEN <<"A">> \o substring(Tail(s), n - LongRun)
           ELSE [i \in 1..n |-> "a"]
  ELSE <<Head(s)>> \o substring(Tail(s), n - 1)

\* sanitizeInput whose replace has no g flag: the first bracket only
RECURSIVE removeFirstAngleBracket(_)
removeFirstAngleBracket(s) ==
  IF s = <<>> THEN <<>>
  ELSE IF Head(s) \in {"<", ">"} THEN Tail(s)
  ELSE <<Head(s)>> \o removeFirstAngleBracket(Tail(s))

sanitizeInputNoGlobal(input) ==
  IF input.k # "string" THEN <<>>
  ELSE substring(removeFirstAngleBracket(trim(input.s)),
                 CONSTRAINTS.email.maxLength)

sanitizeInput(input) ==
  IF input.k # "string" THEN <<>>
  ELSE substring(removeAngleBrackets(trim(input.s)),
                 CONSTRAINTS.email.maxLength)

\* a form is absent (null) or has entries, a name to a value each; the
\* object returned is a function from the names
NoForm == [k |-> "null", entries |-> <<>>]

Form(entries) == [k |-> "form", entries |-> entries]

getFormData(form) ==
  IF form.k = "null" THEN <<>>
  ELSE [key \in DOMAIN form.entries |-> sanitizeInput(form.entries[key])]

\* a page without a carousel container: no controller exists
NoCarousel ==
  /\ track = FALSE
  /\ nSlides = 0
  /\ nIndicators = 0
  /\ prevButton = FALSE
  /\ nextButton = FALSE
  /\ observe = FALSE
  /\ device = "touch"
  /\ coords = {}
  /\ LET S == Markup(0, 0, "unset")
     IN /\ this = S.this
        /\ drag = S.drag
        /\ host = S.host
        /\ dom = S.dom
        /\ listening = S.listening
        /\ bound = S.bound
  /\ time = NewTime
  /\ env = NoEnv
  /\ last = NoLast
  /\ hist = [kind |-> "none", len |-> 0]

\* f applied to the input; the input can be validated again
Return(fn, val) ==
  /\ ret' = [fn |-> fn, val |-> val]
  /\ UNCHANGED <<cfgVars, progVars, time, env, last, hist, arg, main, page>>

CallValidateEmail == Return("validateEmail", validateEmail(arg))

CallMainValidateEmail == Return("mainValidateEmail", mainValidateEmail(arg))

CallSanitizeInput == Return("sanitizeInput", sanitizeInput(arg))

\* the form of the page has one field; its entry is a string or a File
CallGetFormData ==
  /\ arg.k \in {"string", "object"}
  /\ \E form \in {NoForm, Form([key \in {"email"} |-> arg])} :
       Return("getFormData", getFormData(form))

\* sanitizeInput on every string of at most MaxLen tokens and on values
\* that are not strings
InitSanitize ==
  /\ NoCarousel
  /\ arg \in {JsString(s) : s \in SanitizeStrings} \cup NonStrings
  /\ ret = NoRet
  /\ main = NoMain
  /\ page = NoPage

NextSanitize == CallSanitizeInput \/ CallGetFormData

SpecSanitize == InitSanitize /\ [][NextSanitize]_vars

\* both email validators on every string of at most MaxLen tokens
InitEmail ==
  /\ NoCarousel
  /\ arg \in Strings
  /\ ret = NoRet
  /\ main = NoMain
  /\ page = NoPage

NextEmail == CallValidateEmail \/ CallMainValidateEmail

SpecEmail == InitEmail /\ [][NextEmail]_vars

\* the two revisions built on the same container and given the same calls
\* and callbacks; their timers have the same delays and run together
BothNavigateCall(direction) ==
  /\ CommitAt(navigate(World, direction), "navigate", time)
  /\ main' = OnMain(mainNavigate([main EXCEPT !.threw = FALSE], direction))
  /\ UNCHANGED env

BothGoToSlideCall(i) ==
  /\ CommitAt(callGoToSlide(World, i), "goToSlide", time)
  /\ main' = OnMain(mainGoToSlide([main EXCEPT !.threw = FALSE], i))
  /\ UNCHANGED env

BothStartCall ==
  /\ CommitAt(startAutoRotate(World), "startAutoRotate", time)
  /\ main' = OnMain(mainStartAutoRotate([main EXCEPT !.threw = FALSE]))
  /\ UNCHANGED env

BothPauseCall ==
  /\ CommitAt(pauseAutoRotate(World), "pauseAutoRotate", time)
  /\ main' = OnMain(mainPauseAutoRotate([main EXCEPT !.threw = FALSE]))
  /\ UNCHANGED env

BothTick ==
  /\ DOMAIN host.intervals # {} \/ DOMAIN main.host.intervals # {}
  /\ CommitAt(IF DOMAIN host.intervals # {}
                THEN navigate(World, "next") ELSE World, "tick", time)
  /\ main' = IF DOMAIN main.host.intervals # {}
               THEN mainNavigate([main EXCEPT !.threw = FALSE], "next")
               ELSE main
  /\ UNCHANGED env

BothRelease ==
  /\ host.timeouts # <<>> \/ main.host.timeouts # <<>>
  /\ CommitAt(IF host.timeouts # <<>>
                THEN [World EXCEPT !.host.timeouts = Tail(@),
                                   !.this.isTransitioning = FALSE]
                ELSE World, "lockRelease", time)
  /\ main' = IF main.host.timeouts # <<>>
               THEN [main EXCEPT !.host.timeouts = Tail(@),
                                 !.this.isTransitioning = FALSE,
                                 !.threw = FALSE]
               ELSE main
  /\ UNCHANGED env

InitRevisions ==
  InitCfg(1..MaxSlides, 0..MaxSlides,
          {<<p, n>> : p \in BOOLEAN, n \in BOOLEAN},
          {"set", "unset"}, TRUE, {"touch"}, Coords)

NextRevisions ==
  \/ \E d \in {"next", "prev"} : BothNavigateCall(d)
  \/ \E i \in IndexArgs : BothGoToSlideCall(i)
  \/ BothStartCall
  \/ BothPauseCall
  \/ BothTick
  \/ BothRelease

SpecRevisions == InitRevisions /\ [][NextRevisions]_vars

\* ------------------------------------------- the other scripts of the page
\* a step of a script that is no part of a carousel
PageStep(P) ==
  /\ page' = P
  /\ UNCHANGED <<cfgVars, progVars, time, env, last, hist, arg, ret, main>>

\* a page on which no carousel and no form function is examined
NoControllers ==
  /\ NoCarousel
  /\ arg = <<>>
  /\ ret = NoRet
  /\ main = NoMain

\* the host's one-shot timers: id to the time left and what the callback
\* was given; ids are never reused
addTimer(P, id, delay, what) ==
  [P EXCEPT !.timers = [i \in (DOMAIN @) \cup {id} |->
                          IF i = id THEN [left |-> delay, what |-> what]
                          ELSE @[i]],
            !.nextId = @ + 1]

\* clearTimeout(id): no effect for undefined (0) or a timer that has run
clearTimeout(P, id) ==
  [P EXCEPT !.timers = [i \in (DOMAIN @) \ {id} |-> @[i]]]

Due(P) == {i \in DOMAIN P.timers : P.timers[i].left = 0}

\* Quantum units pass for every pending timer
Elapse(P) ==
  [P EXCEPT !.timers = [i \in DOMAIN @ |-> [@[i] EXCEPT !.left = @ - Quantum]]]

\* ---- validation.js debounce(func, delay), delay = CONSTRAINTS.debounceDelay
DebounceArgs == {"x", "y"}

\* debounced(...args) that does not cancel the pending invocation
debouncedNoCancel(P, args) ==
  [addTimer(P, P.nextId, CONSTRAINTS.debounceDelay, args)
     EXCEPT !.timeoutId = P.nextId]

debounced(P, args) ==
  LET P1 == clearTimeout(P, P.timeoutId)
  IN [addTimer(P1, P1.nextId, CONSTRAINTS.debounceDelay, args)
        EXCEPT !.timeoutId = P1.nextId]

\* what the closure holds after debounce(func, delay), and what the model
\* keeps of the run: the arguments of the calls made, the arguments func was
\* invoked with, the time since the latest call (up to delay) and the
\* number of calls made delay or more after their predecessor
InitDebounce ==
  /\ NoControllers
  /\ page = [timeoutId |-> 0, timers |-> <<>>, nextId |-> 1,
             called |-> <<>>, invoked |-> <<>>, since |-> 0, bursts |-> 0]

\* a timer that is due runs before a call made at the same instant
DebouncedCall(args) ==
  /\ Len(page.called) < MaxCalls
  /\ Due(page) = {}
  /\ PageStep([debounced(page, args) EXCEPT
                 !.called = Append(@, args),
                 !.since = 0,
                 !.bursts = IF page.called = <<>>
                               \/ page.since >= CONSTRAINTS.debounceDelay
                              THEN @ + 1 ELSE @])

DebounceTimePasses ==
  /\ DOMAIN page.timers # {}
  /\ Due(page) = {}
  /\ PageStep([Elapse(page) EXCEPT
                 !.since = IF @ < CONSTRAINTS.debounceDelay
                             THEN @ + Quantum ELSE @])

\* the timer's callback: func.apply(this, args)
DebounceTimerFires ==
  \E id \in Due(page) :
    PageStep([clearTimeout(page, id) EXCEPT
               !.invoked = Append(@, page.timers[id].what)])

NextDebounce ==
  \/ \E args \in DebounceArgs : DebouncedCall(args)
  \/ DebounceTimePasses
  \/ DebounceTimerFires

SpecDebounce ==
  InitDebounce /\ [][NextDebounce]_vars
    /\ WF_vars(DebounceTimePasses \/ DebounceTimerFires)

\* ---- validation.js submitFormData(data, timeout = CONSTRAINTS.submitTimeout)
\* a promise settles once: resolve and reject have no effect afterwards
resolve(P, value) ==
  IF P.promise.state = "pending"
    THEN [P EXCEPT !.promise = [state |-> "fulfilled", value |-> value]]
    ELSE P

reject(P, reason) ==
  IF P.promise.state = "pending"
    THEN [P EXCEPT !.promise = [state |-> "rejected", value |-> reason]]
    ELSE P

\* the delay of the rejecting timer: the default for a missing argument
timeoutOf(timeout) ==
  IF timeout.k = "undefined" THEN CONSTRAINTS.submitTimeout ELSE timeout.n

\* submitFormData that schedules the simulated response before the timeout
submitFormDataResponseFirst(P, data, timeout) ==
  LET P1 == addTimer([P EXCEPT !.promise = [state |-> "pending",
                                            value |-> ""],
                               !.data = data],
                     P.nextId, 1000, "response")
      P2 == addTimer(P1, P1.nextId, timeoutOf(timeout), "timeout")
  IN [P2 EXCEPT !.timeoutId = P1.nextId]

\* the executor of the promise: the rejecting timer, then the response timer
submitFormData(P, data, timeout) ==
  LET P1 == addTimer([P EXCEPT !.promise = [state |-> "pending",
                                            value |-> ""],
                               !.data = data],
                     P.nextId, timeoutOf(timeout), "timeout")
      P2 == addTimer(P1, P1.nextId, 1000, "response")
  IN [P2 EXCEPT !.timeoutId = P.nextId]

timeoutCallback(P) == reject(P, "timeout")

\* random is Math.random() > 0.1; resolved with { success: true, data }
responseCallback(P, random) ==
  LET P1 == clearTimeout(P, P.timeoutId)
  IN IF random THEN resolve(P1, P.data) ELSE reject(P1, "server_error")

SubmitTimeouts ==
  {Undefined, Num(0), Num(1000 - Quantum), Num(1000), Num(1000 + Quantum),
   Num(CONSTRAINTS.submitTimeout)}

SubmitData == {"a@a.a", ""}

\* before the call; ran lists the callbacks the host has run
InitSubmit ==
  /\ NoControllers
  /\ page = [promise |-> [state |-> "none", value |-> ""], data |-> "",
             timeoutId |-> 0, timers |-> <<>>, nextId |-> 1,
             timeout |-> 0, ran |-> <<>>]

SubmitCall(data, timeout) ==
  /\ page.promise.state = "none"
  /\ PageStep([submitFormData(page, data, timeout)
                 EXCEPT !.timeout = timeoutOf(timeout)])

SubmitTimePasses ==
  /\ DOMAIN page.timers # {}
  /\ Due(page) = {}
  /\ PageStep(Elapse(page))

\* of the timers due at the same instant the one set first runs first
SubmitTimerFires ==
  /\ Due(page) # {}
  /\ LET id == CHOOSE i \in Due(page) : \A j \in Due(page) : i <= j
         P == [clearTimeout(page, id) EXCEPT
                 !.ran = Append(@, page.timers[id].what)]
     IN IF page.timers[id].what = "timeout"
          THEN PageStep(timeoutCallback(P))
          ELSE \E random \in BOOLEAN : PageStep(responseCallback(P, random))

NextSubmit ==
  \/ \E data \in SubmitData, timeout \in SubmitTimeouts :
       SubmitCall(data, timeout)
  \/ SubmitTimePasses
  \/ SubmitTimerFires

SpecSubmit ==
  InitSubmit /\ [][NextSubmit]_vars
    /\ WF_vars(SubmitTimePasses \/ SubmitTimerFires)

\* ---- validation.js updateButtonState(button, isLoading)
\* button is null (exists FALSE) or an element; dataset.originalText is
\* absent (set FALSE) or holds a string
updateButtonState(button, isLoading) ==
  IF ~button.exists THEN button
  ELSE LET B == [button EXCEPT !.ariaBusy = ToStr(isLoading),
                               !.disabled = isLoading]
       IN IF isLoading
            THEN [B EXCEPT !.originalText = [set |-> TRUE,
                                             value |-> button.textContent],
                           !.textContent = "Sending..."]
          ELSE IF B.originalText.set /\ B.originalText.value # ""
            THEN [B EXCEPT !.textContent = B.originalText.value,
                           !.originalText = [set |-> FALSE, value |-> ""]]
          ELSE B

ButtonTexts == {"", "Subscribe", "Sending..."}

\* the button as the markup has it; initialText and calls keep the text it
\* had and the isLoading arguments of the calls made
InitButton ==
  /\ NoControllers
  /\ \E t \in ButtonTexts, e \in BOOLEAN :
       page = [button |-> [exists |-> e, textContent |-> t,
                           ariaBusy |-> "unset", disabled |-> FALSE,
                           originalText |-> [set |-> FALSE, value |-> ""]],
               initialText |-> t, calls |-> <<>>]

UpdateButtonStateCall(isLoading) ==
  /\ Len(page.calls) < MaxCalls
  /\ PageStep([page EXCEPT
                 !.button = updateButtonState(page.button, isLoading),
                 !.calls = Append(@, isLoading)])

NextButton == \E isLoading \in BOOLEAN : UpdateButtonStateCall(isLoading)

SpecButton == InitButton /\ [][NextButton]_vars

\* ---- main.js initFormValidation: the handlers of the landing-page form
\* announceToScreenReader: an element added to the body, removed 1000 later
announceToScreenReader(P) ==
  addTimer([P EXCEPT !.announcements = @ + 1], P.nextId, 1000, "remove")

removeAnnouncement(P) == [P EXCEPT !.announcements = @ - 1]

\* validateEmail(emailInput, emailError): what it writes; TRUE in valid
\* when it returns true
validateEmailOn(P) ==
  LET r == mainValidateEmail(P.input.value)
  IN [P EXCEPT !.input.ariaInvalid = r.ariaInvalid,
               !.error = r.textContent,
               !.valid = r.isValid]

onBlur(P) == validateEmailOn(P)

\* an input handler that validates whatever aria-invalid is
onInputAlways(P) == validateEmailOn(P)

onInput(P) ==
  IF P.input.ariaInvalid = "true" THEN validateEmailOn(P) ELSE P

onSubmit(P) ==
  LET P1 == validateEmailOn(P)
      P2 == IF P1.button.exists
              THEN [P1 EXCEPT !.button.ariaBusy = "true",
                              !.button.disabled = TRUE]
              ELSE P1
      P3 == announceToScreenReader(P2)
  IN IF P1.valid THEN addTimer(P3, P3.nextId, 1000, "reset") ELSE P1

\* the callback of the submit handler's timer; form.reset() gives the input
\* its default value
submitTimeoutCallback(P) ==
  LET P1 == IF P.button.exists
              THEN [P EXCEPT !.button.ariaBusy = "false",
                             !.button.disabled = FALSE]
              ELSE P
  IN [announceToScreenReader(P1) EXCEPT !.input.value = <<>>,
                                        !.resets = @ + 1]

FormValues ==
  {<<>>, <<" ">>, <<"a", "@", "a">>, <<"a", "@", "a", ".", "a">>,
   <<" ", "a", "@", "a", ".", "a">>}

\* the form after initFormValidation; ev is the latest event, events the
\* number of events of the user
InitForm ==
  /\ NoControllers
  /\ \E b \in BOOLEAN :
       page = [input |-> [value |-> <<>>, ariaInvalid |-> "unset"],
               error |-> "", valid |-> FALSE,
               button |-> [exists |-> b, ariaBusy |-> "unset",
                           disabled |-> FALSE],
               announcements |-> 0, resets |-> 0,
               timers |-> <<>>, nextId |-> 1,
               ev |-> "init", events |-> 0]

UserEvent(P, ev) == PageStep([P EXCEPT !.ev = ev, !.events = @ + 1])

\* the user edits the field: the value changes, then the handler runs
InputEvent(value) ==
  /\ page.events < MaxCalls
  /\ Due(page) = {}
  /\ value # page.input.value
  /\ UserEvent(onInput([page EXCEPT !.input.value = value]), "input")

BlurEvent ==
  /\ page.events < MaxCalls
  /\ Due(page) = {}
  /\ UserEvent(onBlur(page), "blur")

\* the user cannot submit a form through its disabled submit button
SubmitEvent ==
  /\ page.events < MaxCalls
  /\ Due(page) = {}
  /\ ~page.button.disabled
  /\ UserEvent(onSubmit(page), "submit")

FormTimePasses ==
  /\ DOMAIN page.timers # {}
  /\ Due(page) = {}
  /\ PageStep([Elapse(page) EXCEPT !.ev = "time"])

FormTimerFires ==
  /\ Due(page) # {}
  /\ LET id == CHOOSE i \in Due(page) : \A j \in Due(page) : i <= j
         P == clearTimeout(page, id)
     IN IF page.timers[id].what = "reset"
          THEN PageStep([submitTimeoutCallback(P) EXCEPT !.ev = "reset"])
          ELSE PageStep([removeAnnouncement(P) EXCEPT !.ev = "remove"])

NextForm ==
  \/ \E value \in FormValues : InputEvent(value)
  \/ BlurEvent
  \/ SubmitEvent
  \/ FormTimePasses
  \/ FormTimerFires

SpecForm ==
  InitForm /\ [][NextForm]_vars /\ WF_vars(FormTimePasses \/ FormTimerFires)

\* ---- main.js, third script: the parallax of the hero background
\* frames counts the animation-frame callbacks requested and not yet run
updateParallax(P) ==
  IF ~P.heroBackground THEN P
  ELSE IF ~P.heroSection THEN P
  ELSE [P EXCEPT !.transform = IF P.scrollY < P.heroBottom
                                 THEN P.scrollY \div 2 ELSE @,
                 !.ticking = FALSE]

requestParallaxUpdate(P) ==
  LET P1 == [P EXCEPT !.lastScrollY = P.scrollY]
  IN IF ~P1.ticking
       THEN [P1 EXCEPT !.frames = @ + 1, !.ticking = TRUE]
       ELSE P1

initParallax(P) ==
  IF P.reducedMotion \/ ~P.animationEnabled THEN P
  ELSE updateParallax([P EXCEPT !.scrollListener = TRUE])

cleanup(P) == [P EXCEPT !.scrollListener = FALSE]

onVisibilityChange(P) ==
  IF P.hidden THEN [P EXCEPT !.ticking = FALSE]
  ELSE IF ~P.reducedMotion /\ P.animationEnabled
    THEN requestParallaxUpdate(P)
  ELSE P

onMotionChange(P) ==
  IF P.reducedMotion
    THEN LET P1 == cleanup(P)
         IN IF P1.heroBackground THEN [P1 EXCEPT !.transform = 0] ELSE P1
    ELSE initParallax(P)

ScrollPositions == {0, 400, 1200}

\* the page after init(): which elements it has, the preferences, and the
\* closure variables ticking and lastScrollY
InitParallax ==
  /\ NoControllers
  /\ \E bg \in BOOLEAN, hero \in BOOLEAN, rm \in BOOLEAN, an \in BOOLEAN :
       page = initParallax(
                [heroBackground |-> bg, heroSection |-> hero,
                 heroBottom |-> 800, animationEnabled |-> an,
                 reducedMotion |-> rm, hidden |-> FALSE,
                 scrollY |-> 0, lastScrollY |-> 0, transform |-> 0,
                 ticking |-> FALSE, frames |-> 0,
                 scrollListener |-> FALSE, events |-> 0])

\* the user scrolls the visible page
ScrollEvent(y) ==
  /\ page.events < MaxCalls
  /\ ~page.hidden
  /\ y # page.scrollY
  /\ LET P == [page EXCEPT !.scrollY = y, !.events = @ + 1]
     IN PageStep(IF P.scrollListener THEN requestParallaxUpdate(P) ELSE P)

\* the host runs a requested callback; none runs while the page is hidden
AnimationFrame ==
  /\ page.frames > 0
  /\ ~page.hidden
  /\ PageStep(updateParallax([page EXCEPT !.frames = @ - 1]))

VisibilityChange ==
  /\ page.events < MaxCalls
  /\ PageStep(onVisibilityChange([page EXCEPT !.hidden = ~@,
                                              !.events = @ + 1]))

MotionPreferenceChange ==
  /\ page.events < MaxCalls
  /\ PageStep(onMotionChange([page EXCEPT !.reducedMotion = ~@,
                                          !.events = @ + 1]))

NextParallax ==
  \/ \E y \in ScrollPositions : ScrollEvent(y)
  \/ AnimationFrame
  \/ VisibilityChange
  \/ MotionPreferenceChange

SpecParallax == InitParallax /\ [][NextParallax]_vars

\* ---- PerformanceMonitor: the vitals the observers record, and getVitals
\* a value is null or a number; of these only a number other than 0 is
\* truthy
_rateLCP(value) ==
  IF value <= 2500 THEN "good"
  ELSE IF value <= 4000 THEN "needs-improvement"
  ELSE "poor"

_rateFID(value) ==
  IF value <= 100 THEN "good"
  ELSE IF value <= 300 THEN "needs-improvement"
  ELSE "poor"

\* the layout shift is counted in hundredths: 0.1 is 10 and 0.25 is 25
_rateCLS(value) ==
  IF value <= 10 THEN "good"
  ELSE IF value <= 25 THEN "needs-improvement"
  ELSE "poor"

\* a rating that is null is written "null"
getVitals(P) ==
  [lcp |-> P.vitals.lcp, fid |-> P.vitals.fid, cls |-> P.vitals.cls,
   ratings |->
     [lcp |-> IF Truthy(P.vitals.lcp) THEN _rateLCP(P.vitals.lcp.n)
              ELSE "null",
      fid |-> IF Truthy(P.vitals.fid) THEN _rateFID(P.vitals.fid.n)
              ELSE "null",
      cls |-> _rateCLS(P.vitals.cls)]]

\* the callback of the LCP observer on the last entry of a list
onLCP(P, renderTime, loadTime) ==
  [P EXCEPT !.vitals.lcp = Num(IF renderTime # 0 THEN renderTime
                               ELSE loadTime)]

\* the callback of the first-input observer on one entry
onFID(P, processingStart, startTime) ==
  [P EXCEPT !.vitals.fid = Num(processingStart - startTime)]

\* the callback of the layout-shift observer on one entry; clsValue is the
\* closure's running sum
onCLS(P, value, hadRecentInput) ==
  IF ~hadRecentInput
    THEN [P EXCEPT !.clsValue = @ + value, !.vitals.cls = P.clsValue + value]
    ELSE P

PaintTimes == {0, 2500, 2501, 4000, 4001}

InputDelays == {0, 100, 101, 300, 301}

LayoutShifts == {5, 10}

\* the monitor as the object literal has it; recorded keeps which metrics
\* an observer has written
InitVitals ==
  /\ NoCarousel
  /\ arg = <<>>
  /\ ret = NoRet
  /\ main = NoMain
  /\ page = [vitals |-> [lcp |-> Null, fid |-> Null, cls |-> 0],
             clsValue |-> 0,
             recorded |-> [lcp |-> FALSE, fid |-> FALSE]]

\* an observer's callback runs; what getVitals returned before is dropped
Observed(P) ==
  /\ page' = P
  /\ ret' = NoRet
  /\ UNCHANGED <<cfgVars, progVars, time, env, last, hist, arg, main>>

LCPEntry(renderTime, loadTime) ==
  Observed([onLCP(page, renderTime, loadTime) EXCEPT !.recorded.lcp = TRUE])

FIDEntry(processingStart, startTime) ==
  Observed([onFID(page, processingStart, startTime)
              EXCEPT !.recorded.fid = TRUE])

CLSEntry(value, hadRecentInput) ==
  /\ page.clsValue + value <= 30
  /\ Observed(onCLS(page, value, hadRecentInput))

GetVitalsCall == Return("getVitals", getVitals(page))

NextVitals ==
  \/ \E renderTime \in PaintTimes, loadTime \in PaintTimes :
       LCPEntry(renderTime, loadTime)
  \/ \E startTime \in {0, 50}, delay \in InputDelays :
       FIDEntry(startTime + delay, startTime)
  \/ \E value \in LayoutShifts, hadRecentInput \in BOOLEAN :
       CLSEntry(value, hadRecentInput)
  \/ GetVitalsCall

SpecVitals == InitVitals /\ [][NextVitals]_vars

\* ------------------------------------------------------------------ claims
LiveTimers == DOMAIN host.intervals

InteractionInProgress ==
  env.touchActive \/ drag.isDragging \/ env.hovering \/ env.focused

\* C1: the current index of an initialised controller is always one of
\* 0 .. N-1, whatever calls, input events and timer callbacks have run.
C1_IndexInRange == this.currentIndex \in 0..(nSlides - 1)

C1_Witness ==
  /\ nSlides = MaxSlides
  /\ this.currentIndex = nSlides - 1
  /\ this.isTransitioning
  /\ env.tStart # 0 /\ env.mStart # 0 /\ env.hovering /\ env.focused

\* C2: after k navigate('next') calls from index 0, each made with the lock
\* free and nothing else in between, the index is k mod N.
C2_NextIsKModN ==
  hist.kind = "next" => this.currentIndex = hist.len % nSlides

C2_Witness ==
  /\ hist.kind = "next" /\ hist.len = 3
  /\ nSlides = 3 /\ this.currentIndex = 0

\* C3: after k navigate('prev') calls from index 0, each made with the lock
\* free and nothing else in between, the index is (-k) mod N, never negative.
C3_PrevIsMinusKModN ==
  hist.kind = "prev" =>
    /\ this.currentIndex = (nSlides - (hist.len % nSlides)) % nSlides
    /\ this.currentIndex >= 0

C3_Witness ==
  /\ hist.kind = "prev" /\ hist.len = 1
  /\ nSlides = 3 /\ this.currentIndex = 2

\* C4: while the lock-release callback of a navigation is pending, no request
\* (call, click, key, gesture, tick) changes the index or what was emitted,
\* and none schedules another release.
C4_LockedRequestsIgnored ==
  [][host.timeouts # <<>> =>
       /\ this'.currentIndex = this.currentIndex
       /\ dom' = dom
       /\ Len(host'.timeouts) <= Len(host.timeouts)]_vars

C4_Witness ==
  /\ host.timeouts # <<>>
  /\ last.ev = "tick" /\ last.call = "next" /\ last.locked

\* a step that is a direct goToSlide(i) call with i outside 0 .. N-1
BadIndexCall ==
  last'.ev = "goToSlide" /\ (last'.arg < 0 \/ last'.arg >= nSlides)

\* C5 as stated: goToSlide(i) with i outside 0 .. N-1 is reported and changes
\* nothing of the controller, its timers or the attributes it wrote.
C5_BadIndexReportedAndIgnored ==
  [][BadIndexCall => (UNCHANGED progVars /\ last'.err)]_vars

\* C5 amended: goToSlide(i) with i outside 0 .. N-1 changes nothing, and it is
\* reported exactly when the transition lock is free at the call.
C5_BadIndexIgnored ==
  [][BadIndexCall =>
       (UNCHANGED progVars /\ (last'.err <=> ~this.isTransitioning))]_vars

C5_Witness ==
  /\ last.ev = "goToSlide" /\ last.arg >= nSlides /\ last.err
  /\ this.currentIndex > 0

\* C6: the live interval timers are exactly the one the controller holds a
\* handle of, so there is at most one and one pauseAutoRotate stops them all.
C6_OneTimer ==
  /\ Cardinality(LiveTimers) <= 1
  /\ LiveTimers = (IF this.autoRotateInterval = 0
                     THEN {} ELSE {this.autoRotateInterval})
  /\ DOMAIN pauseAutoRotate(World).host.intervals = {}

C6_Witness ==
  /\ last.ev = "startAutoRotate" /\ last.live = 1
  /\ Cardinality(LiveTimers) = 1

\* C7: while a touch, a drag, a hover or a focus is in progress no auto-rotate
\* timer is live.
C7_NoTimerDuringInteraction == InteractionInProgress => LiveTimers = {}

\* C8: whenever every interaction that started has ended, an auto-rotate
\* timer is live.
C8_ResumesWhenIdle ==
  (listening /\ ~InteractionInProgress) => LiveTimers # {}

C8_Witness ==
  /\ listening /\ ~InteractionInProgress
  /\ env.tStart # 0 /\ env.mStart # 0
  /\ LiveTimers # {}

\* the navigation the claim expects of a gesture with net displacement d
Expected(d) == IF d > 50 THEN "next" ELSE IF d < -50 THEN "prev" ELSE "none"

\* C9: a swipe or drag that moved navigates next when start - last > 50,
\* prev when start - last < -50, and not at all otherwise.
C9_GestureThreshold ==
  /\ (last.ev = "touchend" /\ env.touchMoved) =>
        last.call = Expected(env.tStart - env.tLast)
  /\ (last.ev = "dragend" /\ env.dragMoved) =>
        last.call = Expected(env.mStart - env.mLast)

C9_Witness ==
  /\ last.ev = "touchend" /\ env.touchMoved
  /\ env.tStart = 100 /\ env.tLast = 40 /\ last.call = "next"

\* C10: a touch or a drag that ends without having moved navigates nowhere.
C10_TapDoesNotNavigate ==
  /\ (last.ev = "touchend" /\ ~env.touchMoved) => last.call = "none"
  /\ (last.ev = "dragend" /\ ~env.dragMoved) => last.call = "none"
\* C11: in every reachable state of an initialised controller exactly one
\* slide has aria-hidden 'false', it is the slide at currentIndex, and every
\* other slide has aria-hidden 'true'
C11_OneVisibleSlide ==
  /\ Cardinality({i \in 0..(nSlides - 1) : dom.ariaHidden[i] = "false"}) = 1
  /\ dom.ariaHidden[this.currentIndex] = "false"
  /\ \A i \in 0..(nSlides - 1) :
       i # this.currentIndex => dom.ariaHidden[i] = "true"

C11_Witness ==
  /\ nSlides = 3
  /\ this.currentIndex = 2
  /\ dom.ariaHidden = [i \in 0..2 |-> ToStr(i # 2)]

\* C12: on an initialised controller with at least one indicator, in every
\* reachable state (the one right after initialisation included, whatever
\* the markup gave the indicators) exactly one indicator has aria-selected
\* 'true', and it is the indicator at position currentIndex
C12_OneSelectedIndicator ==
  nIndicators >= 1 =>
    {i \in 0..(nIndicators - 1) : dom.ariaSelected[i] = "true"}
      = {this.currentIndex}

\* C13: the transition lock is false initially; it is held exactly while one
\* release callback of 350 units is pending; it becomes true only in a
\* navigate or goToSlide that changes the index and false only in the release
\* callback; every acquisition is followed by a release, also when destroy()
\* runs in between; and a navigate that finds the lock free is accepted
C13_LockWindow ==
  /\ ~this.isTransitioning
  /\ [](host.timeouts = IF this.isTransitioning
                          THEN <<transitionDuration>> ELSE <<>>)
  /\ [][(~this.isTransitioning /\ this'.isTransitioning)
          => /\ last'.call \in {"next", "prev", "goto"}
             /\ this'.currentIndex # this.currentIndex]_vars
  /\ [][(this.isTransitioning /\ ~this'.isTransitioning)
          => last'.ev = "lockRelease"]_vars
  /\ (this.isTransitioning ~> ~this.isTransitioning)
  /\ [][(~this.isTransitioning /\ last'.call \in {"next", "prev"}
           /\ nSlides > 1)
          => /\ this'.isTransitioning
             /\ this'.currentIndex # this.currentIndex]_vars

\* destroy() was called while the lock was held
C13_Witness ==
  /\ last.ev = "destroy"
  /\ ~listening
  /\ this.isTransitioning
  /\ host.timeouts = <<transitionDuration>>

\* C14: after destroy() no auto-rotate timer is live, and no later user-input
\* event (click, key, touch, mouse drag, hover, focus) changes the index or
\* starts a timer again
C14_DestroyReleasesAll ==
  /\ [](~listening => LiveTimers = {})
  /\ [][~listening => /\ this'.currentIndex = this.currentIndex
                       /\ DOMAIN host'.intervals = {}]_vars

\* C15: ArrowLeft calls navigate('prev'), ArrowRight navigate('next'), Home
\* goToSlide(0) and End goToSlide(N - 1); each of the four suppresses the
\* key's default action, also when the lock rejects the navigation; any other
\* key calls nothing, suppresses nothing and changes nothing; with the lock
\* free Home sets the index to 0 and End sets it to N - 1
C15_KeyBindings ==
  /\ [](/\ last.ev = "ArrowLeft" => (last.call = "prev" /\ last.prevented)
        /\ last.ev = "ArrowRight" => (last.call = "next" /\ last.prevented)
        /\ last.ev = "Home" =>
             (last.call = "goto" /\ last.arg = 0 /\ last.prevented)
        /\ last.ev = "End" =>
             (last.call = "goto" /\ last.arg = nSlides - 1 /\ last.prevented)
        /\ last.ev \in Keys \ {"ArrowLeft", "ArrowRight", "Home", "End"} =>
             (last.call = "none" /\ ~last.prevented))
  /\ [][(last'.ev = "Home" /\ ~this.isTransitioning)
          => this'.currentIndex = 0]_vars
  /\ [][(last'.ev = "End" /\ ~this.isTransitioning)
          => this'.currentIndex = nSlides - 1]_vars
  /\ [][last'.ev \in Keys \ {"ArrowLeft", "ArrowRight", "Home", "End"}
          => UNCHANGED progVars]_vars

\* End has just moved a 3-slide carousel to its last slide
C15_Witness ==
  /\ nSlides = 3
  /\ last.ev = "End"
  /\ last.call = "goto"
  /\ last.arg = 2
  /\ last.prevented
  /\ ~last.locked
  /\ this.isTransitioning
  /\ this.currentIndex = 2

\* C16: goToSlide(index) called while the lock is held, or with the current
\* index, leaves the index, the lock, the track offset, every attribute and
\* the pending callbacks as they were; so with one slide the lock is never
\* acquired
C16_GoToSlideNoOp ==
  /\ [][(last'.call = "goto"
           /\ (this.isTransitioning \/ last'.arg = this.currentIndex))
          => UNCHANGED progVars]_vars
  /\ [](nSlides = 1 => (~this.isTransitioning /\ host.timeouts = <<>>))

\* goToSlide(currentIndex) was called with the lock free and acquired nothing
C16_Witness ==
  /\ nSlides = 3
  /\ last.call = "goto"
  /\ last.arg = this.currentIndex
  /\ this.currentIndex = 1
  /\ ~last.locked
  /\ ~this.isTransitioning
  /\ host.timeouts = <<>>

\* C17: in every reachable state the track's transform is translateX(P%)
\* with P = -100 * currentIndex (0 before the first navigation), so after a
\* successful goToSlide(i) it is -100 * i
C17_TransformMatchesIndex == dom.transform = (-100) * this.currentIndex

C17_Witness ==
  /\ nSlides = 3
  /\ this.currentIndex = 2
  /\ this.isTransitioning
  /\ dom.transform = -200

\* C18: in every reachable state (updateAccessibility has run at init and
\* after every index change) the interactive descendants of the active slide
\* have tabindex '0' and those of every other slide '-1', and each of the
\* previous and next controls that is present carries a label stating
\* 'Slide K of N' with K = currentIndex + 1
C18_FocusAndLabels ==
  /\ \A i \in 0..(nSlides - 1) :
       dom.slideTabindex[i] = IF i = this.currentIndex THEN "0" ELSE "-1"
  /\ prevButton =>
       dom.prevLabel = "Previous template - Slide "
                         \o ToString(this.currentIndex + 1)
                         \o " of " \o ToString(nSlides)
  /\ nextButton =>
       dom.nextLabel = "Next template - Slide "
                         \o ToString(this.currentIndex + 1)
                         \o " of " \o ToString(nSlides)

\* C19 as stated: after an index change, with any number M >= 1 of
\* indicators (M < N included), exactly one indicator is selected
\* (aria-selected 'true', tabindex '0'), it is the one at currentIndex, and
\* all others are unselected ('false', '-1')
C19_ExactlyOneIndicator ==
  [][(this'.currentIndex # this.currentIndex /\ nIndicators >= 1)
      => /\ {i \in 0..(nIndicators - 1) : dom'.ariaSelected[i] = "true"}
              = {this'.currentIndex}
         /\ {i \in 0..(nIndicators - 1) : dom'.indTabindex[i] = "0"}
              = {this'.currentIndex}
         /\ \A i \in 0..(nIndicators - 1) :
              i # this'.currentIndex => /\ dom'.ariaSelected[i] = "false"
                                        /\ dom'.indTabindex[i] = "-1"]_vars

\* C19 amended: after an index change every indicator i < M is selected
\* ('true', '0') iff i = currentIndex and unselected ('false', '-1')
\* otherwise; so exactly one is selected when currentIndex < M, and none is
\* when currentIndex >= M
C19_IndicatorsFollowIndex ==
  [][(this'.currentIndex # this.currentIndex /\ nIndicators >= 1)
      => /\ \A i \in 0..(nIndicators - 1) :
              /\ dom'.ariaSelected[i] = ToStr(i = this'.currentIndex)
              /\ dom'.indTabindex[i]
                   = IF i = this'.currentIndex THEN "0" ELSE "-1"
         /\ Cardinality({i \in 0..(nIndicators - 1) :
                           dom'.ariaSelected[i] = "true"})
              = IF this'.currentIndex < nIndicators THEN 1 ELSE 0]_vars

\* a navigation to slide 2 of 3 with two indicators: none is selected
C19_Witness ==
  /\ nSlides = 3
  /\ nIndicators = 2
  /\ this.currentIndex = 2
  /\ this.isTransitioning
  /\ dom.ariaSelected = [i \in 0..1 |-> "false"]
  /\ dom.indTabindex = [i \in 0..1 |-> "-1"]

\* C20: construction on a container without the track, or without slides,
\* reports an error, does not throw, installs no listener and starts no
\* timer; afterwards no call of navigate, goToSlide, startAutoRotate,
\* pauseAutoRotate or destroy on the instance throws or changes any state
C20_UnconstructedIsInert ==
  /\ (last.err /\ ~last.thrown /\ ~listening
       /\ host = [intervals |-> <<>>, timeouts |-> <<>>])
  /\ [][~last'.thrown /\ UNCHANGED progVars]_vars

\* C21: with the disable attribute 'true' nothing is initialised: no binding
\* is installed, no timer started, no callback scheduled and no attribute
\* written, and after any user input currentIndex is 0, the lock is free and
\* every handler has done nothing
C21_DisabledIsInert ==
  /\ ~bound /\ ~listening
  /\ this.currentIndex = 0
  /\ ~this.isTransitioning
  /\ this.autoRotateInterval = 0
  /\ LiveTimers = {}
  /\ host.timeouts = <<>>
  /\ dom \in {MarkupDom(nSlides, nIndicators, a) : a \in {"set", "unset"}}
  /\ last.call = "none"

\* a click on the next control of a disabled 3-slide carousel
C21_Witness ==
  /\ nSlides = 3
  /\ nextButton
  /\ ~bound
  /\ last.ev = "nextClick"
  /\ env.hovering
  /\ this.currentIndex = 0

\* the index a handler's navigation request asks for
Target ==
  CASE last'.call = "next" -> (this.currentIndex + 1) % nSlides
    [] last'.call = "prev" -> (this.currentIndex + nSlides - 1) % nSlides
    [] OTHER -> last'.arg

\* C22: a container without the previous control, the next control or the
\* indicators initialises without error and with the timer started; only the
\* clicks of present controls exist; and keys, swipes and drags request and
\* perform the same navigation as with every control present
C22_MissingControlsDegrade ==
  /\ (~last.err /\ Cardinality(LiveTimers) = 1)
  /\ [](listening /\ bound /\ ~last.thrown)
  /\ [](/\ last.ev = "prevClick" => prevButton
        /\ last.ev = "nextClick" => nextButton
        /\ last.ev = "indicatorClick" => nIndicators > 0
        /\ last.ev = "ArrowLeft" => last.call = "prev"
        /\ last.ev = "ArrowRight" => last.call = "next"
        /\ last.ev = "Home" => (last.call = "goto" /\ last.arg = 0)
        /\ last.ev = "End" => (last.call = "goto" /\ last.arg = nSlides - 1)
        /\ (last.ev = "touchend" /\ env.touchMoved) =>
             last.call = Expected(env.tStart - env.tLast)
        /\ (last.ev = "dragend" /\ env.dragMoved) =>
             last.call = Expected(env.mStart - env.mLast))
  /\ [][(/\ last'.ev \in {"ArrowLeft", "ArrowRight", "Home", "End",
                           "touchend", "dragend"}
         /\ last'.call # "none"
         /\ ~this.isTransitioning)
          => /\ this'.currentIndex = Target
             /\ dom'.transform = (-100) * Target
             /\ dom'.ariaHidden = [i \in 0..(nSlides - 1) |-> ToStr(i # Target)]
             /\ this'.isTransitioning = (Target # this.currentIndex)]_vars

\* ArrowRight has moved a carousel without controls and indicators to slide 1
C22_Witness ==
  /\ ~prevButton /\ ~nextButton /\ nIndicators = 0
  /\ nSlides = 3
  /\ last.ev = "ArrowRight"
  /\ this.currentIndex = 1
  /\ this.isTransitioning
  /\ LiveTimers # {}

\* C23: with no user interaction every tick of the 5000-unit timer finds the
\* 350-unit lock released, calls navigate('next') and advances the index by
\* one modulo N; so every index below N is current infinitely often
C23_AutoRotateCycles ==
  /\ [][(time.tick = 0 /\ last'.ev = "tick")
          => /\ ~this.isTransitioning
             /\ last'.call = "next"
             /\ ~last'.locked
             /\ this'.currentIndex = (this.currentIndex + 1) % nSlides]_vars
  /\ \A i \in 0..(MaxSlides - 1) :
       []<>(i < nSlides => this.currentIndex = i)

\* the third tick has wrapped a 3-slide carousel back to slide 0
C23_Witness ==
  /\ nSlides = 3
  /\ last.ev = "tick"
  /\ this.currentIndex = 0
  /\ this.isTransitioning
  /\ time.tick = autoRotateDelay
  /\ time.release = transitionDuration

\* C24: pauseAutoRotate() or destroy() called while no timer is live (never
\* started, paused or destroyed before) does not throw and changes neither
\* the controller's fields nor the host's timers, so a second call in a row
\* leaves what the first left, and the index and the lock are never touched
C24_IdempotentCancellation ==
  [][(last'.ev \in {"pauseAutoRotate", "destroy"}
       /\ DOMAIN host.intervals = {})
      => /\ ~last'.thrown
         /\ this' = this
         /\ host' = host]_vars

\* C25: validateEmail classifies the trimmed input by the first rule that
\* applies: empty gives 'required'; fewer than 3 characters 'too short'; more
\* than 254 'too long', also when the pattern matches; no match of
\* local@domain.tld 'invalid format'; otherwise valid with no message; so
\* 'a@b.co' is valid, '' is required and 'nope' has an invalid format
C25_ValidateEmailRules ==
  ret.fn = "validateEmail" =>
    LET t == trim(arg)
        n == length(t)
    IN /\ t = <<>> => ret.val = [isValid |-> FALSE,
                                 message |-> "Email address is required"]
       /\ (t # <<>> /\ n < 3) =>
            ret.val = [isValid |-> FALSE,
                       message |-> "Email address is too short"]
       /\ n > 254 =>
            ret.val = [isValid |-> FALSE,
                       message |-> "Email address is too long (max 254 characters)"]
       /\ (n >= 3 /\ n <= 254 /\ ~EMAIL_REGEX_test(t)) =>
            ret.val = [isValid |-> FALSE,
                       message |-> "Please enter a valid email address"]
       /\ (n >= 3 /\ n <= 254 /\ EMAIL_REGEX_test(t)) =>
            ret.val = [isValid |-> TRUE, message |-> ""]
       /\ arg = <<"a", "@", "a", ".", "a", "a">> => ret.val.isValid
       /\ arg = <<"A", "@", "a", ".", "a">> => ret.val.isValid
       /\ arg = <<"a", "a", "a", "a">> =>
            ret.val.message = "Please enter a valid email address"

\* an address of 255 characters that matches the pattern is too long
C25_Witness ==
  /\ arg = <<"A", "a", "@", "a", ".", "a">>
  /\ length(arg) = 255
  /\ EMAIL_REGEX_test(arg)
  /\ ret.fn = "validateEmail"
  /\ ret.val = [isValid |-> FALSE,
                message |-> "Email address is too long (max 254 characters)"]

\* C26: built on the same container and given the same calls and callbacks,
\* the controller of main.js and the one of carousel.js have the same index,
\* lock, live timers and emitted attributes, and neither throws where the
\* other does not (containers without the controls included)
C26_RevisionsEquivalent ==
  /\ main.failed = FALSE
  /\ main.threw = last.thrown
  /\ main.this.currentIndex = this.currentIndex
  /\ main.this.isTransitioning = this.isTransitioning
  /\ DOMAIN main.host.intervals = DOMAIN host.intervals
  /\ main.dom = dom

\* the events that ask for a navigation
RequestEvents ==
  {"tick", "prevClick", "nextClick", "indicatorClick", "touchend", "dragend"}
    \cup Keys

\* C27 as stated: a tick, key press, click or gesture end that arrives while
\* the lock is held changes nothing at the time
C27_LockedRequestChangesNothing ==
  [][(this.isTransitioning /\ last'.ev \in RequestEvents)
       => UNCHANGED progVars]_vars

\* C27: a tick, key press, click or gesture end that arrives while the lock
\* is held is dropped, not queued: it leaves the index, the lock, the track's
\* offset, the attributes and the pending releases as they are (a tick, key
\* press or click changes nothing at all; a gesture end still ends the drag
\* and restarts the rotation timer), and the release callback only clears
\* the flag and never changes the index
C27_LockedRequestIsDropped ==
  [][/\ (this.isTransitioning /\ last'.ev \in RequestEvents)
          => /\ this'.currentIndex = this.currentIndex
             /\ this'.isTransitioning
             /\ dom' = dom
             /\ host'.timeouts = host.timeouts
             /\ last'.ev \notin {"touchend", "dragend"}
                  => UNCHANGED progVars
             /\ last'.ev \in {"touchend", "dragend"}
                  => /\ Cardinality(DOMAIN host'.intervals) = 1
                     /\ ~drag'.isDragging
     /\ last'.ev = "lockRelease"
          => /\ this' = [this EXCEPT !.isTransitioning = FALSE]
             /\ host'.intervals = host.intervals
             /\ host'.timeouts = Tail(host.timeouts)
             /\ dom' = dom /\ drag' = drag]_vars

\* a swipe past the threshold ended while the lock was held, and the lock is
\* still held
C27_Witness ==
  /\ last.ev = "touchend" /\ last.call \in {"next", "prev"} /\ last.locked
  /\ this.isTransitioning

\* C28: a mouseup or mousemove on the document while no drag is in progress
\* calls neither navigate nor startAutoRotate and leaves the index, the
\* lock, the timer and the stored drag coordinates unchanged; and a mouseup
\* acts only on a drag in progress and ends it, so that one mousedown is
\* matched by at most one drag end
C28_StrayMouseEventsIgnored ==
  [][/\ (~drag.isDragging /\ last'.ev \in {"mouseup", "mousemove"})
          => UNCHANGED progVars /\ last'.call = "none"
     /\ last'.ev \in {"mouseup", "dragend"}
          => /\ ~drag'.isDragging
             /\ (this' # this \/ host' # host) => drag.isDragging]_vars

\* a mouseup with no drag in progress, the lock free and the coordinates of
\* an earlier drag past the threshold still stored
C28_Witness ==
  /\ last.ev = "mouseup"
  /\ ~drag.isDragging /\ ~this.isTransitioning
  /\ Abs(drag.startX - drag.currentX) > dragThreshold

\* C29: the validator of main.js and the one of validation.js accept the
\* same strings: for every input, main.js returns true exactly when
\* validation.js returns isValid = true
C29_ValidatorsAgree ==
  /\ ret.fn = "mainValidateEmail"
       => ret.val.isValid = validateEmail(arg).isValid
  /\ ret.fn = "validateEmail"
       => ret.val.isValid = mainValidateEmail(arg).isValid

\* a string without angle brackets and of at most 254 characters
Clean(str) ==
  /\ \A i \in 1..Len(str) : str[i] \notin {"<", ">"}
  /\ length(str) <= 254

\* C30: sanitizeInput returns '' for every input that is not a string, and
\* for every string a string without '<' and '>' of at most 254 characters;
\* every value of the object getFormData returns is such a string
C30_SanitizedIsClean ==
  /\ ret.fn = "sanitizeInput"
       => /\ arg.k # "string" => ret.val = <<>>
          /\ arg.k = "string" => Clean(ret.val)
  /\ ret.fn = "getFormData"
       => \A key \in DOMAIN ret.val :
            /\ arg.k # "string" => ret.val[key] = <<>>
            /\ Clean(ret.val[key])

\* a string with angle brackets and more than 254 other characters has been
\* sanitized: the brackets are gone and the result is cut to 254 characters
C30_Witness ==
  /\ ret.fn = "sanitizeInput"
  /\ arg.k = "string"
  /\ \E i, j \in 1..Len(arg.s) : arg.s[i] = "<" /\ arg.s[j] = ">"
  /\ length(removeAngleBrackets(trim(arg.s))) > 254
  /\ length(ret.val) = 254

\* C31: sanitizeInput is idempotent and its result is fully trimmed: for
\* every string s, sanitizeInput(sanitizeInput(s)) = sanitizeInput(s), and
\* sanitizeInput(s) has no leading and no trailing whitespace
C31_SanitizeIdempotentTrimmed ==
  (ret.fn = "sanitizeInput" /\ arg.k = "string")
    => /\ sanitizeInput(JsString(ret.val)) = ret.val
       /\ trim(ret.val) = ret.val

\* C32: for a function made by debounce(func, delay): at most one invocation
\* of func is pending at any time, and one per run of calls less than delay
\* apart is pending or made; a call cancels the invocation that was pending,
\* schedules its own and never invokes func itself; func is invoked delay
\* after the latest call with the arguments of that call; and a pending
\* invocation is made in the end
C32_DebounceInvokesOncePerBurst ==
  /\ [](/\ Cardinality(DOMAIN page.timers) <= 1
        /\ Len(page.invoked) + Cardinality(DOMAIN page.timers) = page.bursts)
  /\ [][Len(page'.called) > Len(page.called)
          => /\ page'.invoked = page.invoked
             /\ DOMAIN page'.timers = {page'.timeoutId}
             /\ page'.timeoutId \notin DOMAIN page.timers
             /\ page'.timers[page'.timeoutId] =
                  [left |-> CONSTRAINTS.debounceDelay,
                   what |-> page'.called[Len(page'.called)]]]_vars
  /\ [][Len(page'.invoked) > Len(page.invoked)
          => /\ page.since = CONSTRAINTS.debounceDelay
             /\ page'.invoked = Append(page.invoked,
                                       page.called[Len(page.called)])
             /\ page'.timers = <<>>]_vars
  /\ (DOMAIN page.timers # {}) ~> (DOMAIN page.timers = {})

\* three calls with different arguments, each less than delay after the one
\* before, and one invocation, with the arguments of the third
C32_Witness ==
  /\ page.called = <<"x", "y", "x">>
  /\ page.bursts = 1
  /\ page.invoked = <<"x">>
  /\ page.since = CONSTRAINTS.debounceDelay

\* C33: the promise of submitFormData(data, timeout) settles, and once: it
\* is rejected with 'timeout' exactly when timeout <= 1000, when the
\* rejecting callback runs before the response; otherwise it is resolved
\* with the data or rejected with 'server_error'; with the default timeout
\* the outcome is never 'timeout'; a callback that runs after the promise
\* has settled does not change the outcome
C33_SubmitSettlesOnce ==
  /\ [](page.promise.state \in {"fulfilled", "rejected"}
         => /\ page.promise = [state |-> "rejected", value |-> "timeout"]
                 <=> page.timeout <= 1000
            /\ page.promise = [state |-> "rejected", value |-> "timeout"]
                 <=> page.ran[1] = "timeout"
            /\ page.timeout > 1000
                 => \/ page.promise = [state |-> "fulfilled",
                                       value |-> page.data]
                    \/ page.promise = [state |-> "rejected",
                                       value |-> "server_error"]
            /\ page.timeout = CONSTRAINTS.submitTimeout
                 => page.promise.value # "timeout")
  /\ [][page.promise.state \in {"fulfilled", "rejected"}
          => page'.promise = page.promise]_vars
  /\ (page.promise.state = "pending")
       ~> (page.promise.state \in {"fulfilled", "rejected"})

\* with a timeout of exactly 1000 the rejecting callback ran first and the
\* response, which ran second, left the promise rejected with 'timeout'
C33_Witness ==
  /\ page.timeout = 1000
  /\ page.ran = <<"timeout", "response">>
  /\ page.promise = [state |-> "rejected", value |-> "timeout"]

\* C34: for every text t of the button, the empty one included, and every
\* n >= 1: after n calls updateButtonState(button, true) and then one call
\* updateButtonState(button, false) the text is t again, the button is
\* enabled, aria-busy is 'false' and no original text remains stored
C34_ButtonRestored ==
  (/\ page.button.exists
   /\ Len(page.calls) >= 2
   /\ \A i \in 1..Len(page.calls) : page.calls[i] <=> i < Len(page.calls))
    => /\ page.button.textContent = page.initialText
       /\ ~page.button.disabled
       /\ page.button.ariaBusy = "false"
       /\ ~page.button.originalText.set

\* C35: in the form handler of main.js a submit with a valid email disables
\* the submit button with aria-busy 'true' and schedules, for 1000 units
\* later, the callback that enables it again and resets the form, so that
\* the button does not stay disabled; a submit with an empty or malformed
\* email sets aria-invalid 'true' and an error message, leaves the button
\* enabled and schedules nothing; and while aria-invalid is 'false' an input
\* event does not change the validation state
C35_FormHandler ==
  /\ [][(page'.ev = "submit" /\ mainValidateEmail(page.input.value).isValid)
          => /\ page.button.exists
                  => page'.button.disabled /\ page'.button.ariaBusy = "true"
             /\ page'.input.ariaInvalid = "false"
             /\ \E id \in DOMAIN page'.timers \ DOMAIN page.timers :
                  page'.timers[id] = [left |-> 1000, what |-> "reset"]]_vars
  /\ [][page'.ev = "reset"
          => /\ page.button.exists
                  => /\ ~page'.button.disabled
                     /\ page'.button.ariaBusy = "false"
             /\ page'.input.value = <<>>
             /\ page'.resets = page.resets + 1]_vars
  /\ page.button.disabled ~> ~page.button.disabled
  /\ [][(page'.ev = "submit" /\ ~mainValidateEmail(page.input.value).isValid)
          => /\ page'.input.ariaInvalid = "true"
             /\ page'.error # ""
             /\ page'.button = page.button /\ ~page'.button.disabled
             /\ page'.timers = page.timers
             /\ page'.resets = page.resets]_vars
  /\ [][(page'.ev = "input" /\ page.input.ariaInvalid = "false")
          => /\ page'.input.ariaInvalid = "false"
             /\ page'.error = page.error]_vars

\* a valid email was submitted, the button was disabled, and 1000 units
\* later the callback enabled it and reset the form
C35_Witness ==
  /\ page.ev = "reset"
  /\ page.resets = 1
  /\ page.button.exists /\ ~page.button.disabled
  /\ page.button.ariaBusy = "false"
  /\ page.input = [value |-> <<>>, ariaInvalid |-> "false"]

\* C36: for every interleaving of scroll events, animation-frame callbacks,
\* visibility changes and changes of the motion preference, at most one
\* animation-frame callback for updateParallax is pending, and ticking is
\* true exactly when one is pending
C36_OneFramePending ==
  /\ page.frames <= 1
  /\ page.ticking <=> page.frames = 1

\* C37: getVitals reports, for a metric whose value an observer has
\* recorded, the rating of that value (LCP: good up to 2500, needs
\* improvement up to 4000, poor above; FID: good up to 100, needs
\* improvement up to 300, poor above) and a null rating only when no value
\* has been recorded; a recorded value of 0 is rated 'good'
C37_VitalsRated ==
  ret.fn = "getVitals" =>
    /\ page.recorded.lcp
         => /\ ret.val.lcp = page.vitals.lcp
            /\ ret.val.ratings.lcp =
                 (IF page.vitals.lcp.n <= 2500 THEN "good"
                  ELSE IF page.vitals.lcp.n <= 4000 THEN "needs-improvement"
                  ELSE "poor")
    /\ page.recorded.fid
         => /\ ret.val.fid = page.vitals.fid
            /\ ret.val.ratings.fid =
                 (IF page.vitals.fid.n <= 100 THEN "good"
                  ELSE IF page.vitals.fid.n <= 300 THEN "needs-improvement"
                  ELSE "poor")
    /\ ret.val.ratings.lcp = "null" => ~page.recorded.lcp
    /\ ret.val.ratings.fid = "null" => ~page.recorded.fid

====
